---- MODULE Spec2Model ----
(***************************************************************************)
(* A model of the Markdown-to-HTML converter of static-site-gen.           *)
(*                                                                         *)
(* A Python str is a sequence of one-character strings, so that count,     *)
(* split, strip and the two regular expressions work on characters as the  *)
(* interpreter does.  Every function of the source is an operator with the *)
(* source's name; an action is one call of a public function, recording    *)
(* the call (fn, arguments) and what it returned or raised.                *)
(***************************************************************************)
EXTENDS Integers, Sequences, FiniteSets, TLC

VARIABLES
    text,        \* the str handed to the inline parser
    nodes,       \* the current list of TextNode
    fn,          \* the function called last ("init" before any call)
    old_nodes,   \* the list that call received
    delimiter,   \* the delimiter that call received (<<>> when it takes none)
    text_type,   \* the TextType that call received
    raised,      \* the exception message of that call, NoError when it returned
    pairs,       \* what extract_markdown_images / _links returned
    markdown,    \* the document handed to the block splitter
    blocks,      \* what markdown_to_blocks returned
    block,       \* the block handed to the classifier or to a converter
    block_type,  \* what block_to_block_type returned
    tree,        \* the HTMLNode a converter returned, or one built by hand
    html,        \* what to_html returned for tree, None before it is called
    stdout,      \* the lines the calls printed to standard output
    title        \* what extract_title returned, None before it is called

vars == <<text, nodes, fn, old_nodes, delimiter, text_type, raised, pairs,
          markdown, blocks, block, block_type, tree, html, stdout, title>>

\* The variables of one part of the program, for the calls of another.
inlineVars == <<text, nodes, old_nodes, delimiter, text_type, pairs>>
htmlVars == <<block, block_type, tree, html, stdout, title>>

(***************************************************************************)
(* Bounds of the model.                                                    *)
(***************************************************************************)
MaxLen == 5
MaxPieces == 3
MaxDocLen == 6

(***************************************************************************)
(* str primitives.                                                         *)
(***************************************************************************)
None == <<"None">>
NoError == <<>>

\* s[i:j] of Python with 1-based inclusive bounds: s[i..j], empty when j < i.
Slice(s, i, j) == IF j < i THEN <<>> ELSE SubSeq(s, i, j)

\* s.startswith(p, i-1)
StartsWithAt(s, i, p) ==
    /\ i >= 1
    /\ i + Len(p) - 1 <= Len(s)
    /\ \A k \in 1..Len(p) : s[i + k - 1] = p[k]

\* s.find(p, i-1) + 1: the first position >= i where p occurs, 0 when none.
RECURSIVE Find(_, _, _)
Find(s, p, i) ==
    IF i + Len(p) - 1 > Len(s) THEN 0
    ELSE IF StartsWithAt(s, i, p) THEN i
    ELSE Find(s, p, i + 1)

\* s.count(p): non-overlapping occurrences, scanned left to right.
RECURSIVE CountFrom(_, _, _)
CountFrom(s, p, i) ==
    LET j == Find(s, p, i)
    IN  IF j = 0 THEN 0 ELSE 1 + CountFrom(s, p, j + Len(p))

\* Variant of count: every occurrence counted, overlapping or not.
count_overlapping(s, p) == Cardinality({i \in 1..Len(s) : StartsWithAt(s, i, p)})

count(s, p) == CountFrom(s, p, 1)

\* s.split(p): the chunks between the non-overlapping occurrences of p.
RECURSIVE SplitFrom(_, _, _)
SplitFrom(s, p, i) ==
    LET j == Find(s, p, i)
    IN  IF j = 0 THEN <<Slice(s, i, Len(s))>>
        ELSE <<Slice(s, i, j - 1)>> \o SplitFrom(s, p, j + Len(p))

\* Variant of split: the scan resumes one character after an occurrence
\* instead of after its last character.
RECURSIVE SplitFromNext(_, _, _)
SplitFromNext(s, p, i) ==
    IF Find(s, p, i) = 0 THEN <<Slice(s, i, Len(s))>>
    ELSE <<Slice(s, i, Find(s, p, i) - 1)>>
             \o SplitFromNext(s, p, Find(s, p, i) + 1)

split_resuming_early(s, p) == SplitFromNext(s, p, 1)

split(s, p) == SplitFrom(s, p, 1)

\* s.split(p, 1): one chunk when p does not occur, else two.
split1(s, p) ==
    LET j == Find(s, p, 1)
    IN  IF j = 0 THEN <<s>>
        ELSE <<Slice(s, 1, j - 1), Slice(s, j + Len(p), Len(s))>>

\* The characters str.strip() removes (those an ASCII document can hold).
Whitespace == {" ", "\t", "\n", "\r", "\f"}

RECURSIVE lstrip(_)
lstrip(s) ==
    IF s # <<>> /\ Head(s) \in Whitespace THEN lstrip(Tail(s)) ELSE s

RECURSIVE rstrip(_)
rstrip(s) ==
    IF s # <<>> /\ s[Len(s)] \in Whitespace
    THEN rstrip(SubSeq(s, 1, Len(s) - 1)) ELSE s

strip(s) == rstrip(lstrip(s))

\* The character U+0060 (grave accent), which a TLA+ string cannot hold.
Backtick == "U+0060"

\* "".join(ss)
RECURSIVE Concat(_)
Concat(ss) == IF ss = <<>> THEN <<>> ELSE Head(ss) \o Concat(Tail(ss))

(***************************************************************************)
(* TextNode and TextType (textnode.py).                                    *)
(***************************************************************************)
TextType == {"TEXT", "BOLD", "ITALIC", "CODE", "LINK", "IMAGE"}

TextNode(t, tt, u) == [text |-> t, text_type |-> tt, url |-> u]

(***************************************************************************)
(* The regular expressions of parsing.py, by the backtracking matcher's    *)
(* rules: a lazy group takes the fewest characters for which the rest of   *)
(* the pattern matches, "." matches any character but a newline, and       *)
(* findall resumes right after each match.                                 *)
(***************************************************************************)
NoMatch == [start |-> 0, stop |-> 0, g1 |-> <<>>, g2 |-> <<>>]

\* (.*?)\) from position k: the position of the first ")" reached over
\* characters other than a newline, 0 when there is none.
RECURSIVE CloseFrom(_, _)
CloseFrom(s, k) ==
    IF k > Len(s) THEN 0
    ELSE IF s[k] = ")" THEN k
    ELSE IF s[k] = "\n" THEN 0
    ELSE CloseFrom(s, k + 1)

\* \]\((https?:\/\/.*?)\) at position j: the position of the closing ")",
\* 0 when it does not match there.  The optional "s" is tried first.
WithS(s, a) ==
    IF StartsWithAt(s, a, <<"s", ":", "/", "/">>) THEN CloseFrom(s, a + 4)
    ELSE 0

WithoutS(s, a) ==
    IF StartsWithAt(s, a, <<":", "/", "/">>) THEN CloseFrom(s, a + 3)
    ELSE 0

FirstMatch(withS, withoutS) == IF withS # 0 THEN withS ELSE withoutS

RestAt(s, j) ==
    IF ~StartsWithAt(s, j, <<"]", "(", "h", "t", "t", "p">>) THEN 0
    ELSE FirstMatch(WithS(s, j + 6), WithoutS(s, j + 6))

\* (.*?) opened at position a, tried with its end at j, j+1, ...: the match
\* that began at position i, or NoMatch.
RECURSIVE LazyFrom(_, _, _, _)
\* e is where the rest of the pattern ends when group 1 ends before j.
LazyStep(s, i, a, j, e) ==
    IF e # 0
    THEN [start |-> i, stop |-> e,
          g1 |-> Slice(s, a, j - 1), g2 |-> Slice(s, j + 2, e - 1)]
    ELSE IF s[j] = "\n" THEN NoMatch
    ELSE LazyFrom(s, i, a, j + 1)

LazyFrom(s, i, a, j) ==
    IF j > Len(s) THEN NoMatch ELSE LazyStep(s, i, a, j, RestAt(s, j))

\* !\[(.*?)\]\((https?:\/\/.*?)\) tried at position i.
ImageAt(s, i) ==
    IF StartsWithAt(s, i, <<"!", "[">>) THEN LazyFrom(s, i, i + 2, i + 2)
    ELSE NoMatch

\* Variant of LinkAt: the pattern without its lookbehind (?<!!).
LinkAtNoLookbehind(s, i) ==
    IF StartsWithAt(s, i, <<"[">>) THEN LazyFrom(s, i, i + 1, i + 1)
    ELSE NoMatch

\* (?<!!)\[(.*?)\]\((https?:\/\/.*?)\) tried at position i.
LinkAt(s, i) ==
    IF StartsWithAt(s, i, <<"[">>) /\ ~(i > 1 /\ s[i - 1] = "!")
    THEN LazyFrom(s, i, i + 1, i + 1)
    ELSE NoMatch

MatchAt(pattern, s, i) ==
    IF pattern = "image" THEN ImageAt(s, i) ELSE LinkAt(s, i)

\* re.finditer: the matches from left to right, none overlapping.
RECURSIVE FindIterFrom(_, _, _)
\* m is what the pattern matched at position i.
FindIterStep(pattern, s, i, m) ==
    IF m = NoMatch THEN FindIterFrom(pattern, s, i + 1)
    ELSE <<m>> \o FindIterFrom(pattern, s, m.stop + 1)

FindIterFrom(pattern, s, i) ==
    IF i > Len(s) THEN <<>>
    ELSE FindIterStep(pattern, s, i, MatchAt(pattern, s, i))

finditer(pattern, s) == FindIterFrom(pattern, s, 1)

\* re.findall with two groups: the (group 1, group 2) tuple of each match.
Groups(ms) == [k \in 1..Len(ms) |-> <<ms[k].g1, ms[k].g2>>]

findall(pattern, s) == Groups(finditer(pattern, s))

extract_markdown_images(s) == findall("image", s)

extract_markdown_links(s) == findall("link", s)

(***************************************************************************)
(* parsing.py: the three splitters.  A call returns [raised, value]:       *)
(* raised is the exception's message (NoError when the call returned) and  *)
(* value what it returned (None when it raised).                           *)
(***************************************************************************)
Returned(v) == [raised |-> NoError, value |-> v]
Raised(msg) == [raised |-> msg, value |-> None]

\* f"Invalid Markdown: Unmatched {delimiter} delimiter."
Unmatched(d) == <<"Invalid Markdown: Unmatched ">> \o d \o <<" delimiter.">>

\* ValueError of "before, after = ..." when split returned one element.
UnpackError == <<"not enough values to unpack">>

\* Variant of ChunkNodes: empty chunks dropped before the nodes are made.
ChunkNodesNonEmpty(chunks, tt) ==
    SelectSeq([k \in 1..Len(chunks) |->
                  IF (k - 1) % 2 = 0 THEN TextNode(chunks[k], "TEXT", None)
                  ELSE TextNode(chunks[k], tt, None)],
              LAMBDA n : n.text # <<>>)

\* Lines 37-42: the chunks at even 0-based positions are TEXT, the others
\* get the given text_type.
ChunkNodes(chunks, tt) ==
    [k \in 1..Len(chunks) |->
        IF (k - 1) % 2 = 0 THEN TextNode(chunks[k], "TEXT", None)
        ELSE TextNode(chunks[k], tt, None)]

\* Lines 29-44, from node k on, with the list built so far.
RECURSIVE DelimiterLoop(_, _, _, _, _)
DelimiterLoop(ns, d, tt, k, parsed_nodes) ==
    IF k > Len(ns) THEN Returned(parsed_nodes)
    ELSE IF ns[k].text_type # "TEXT"
         THEN DelimiterLoop(ns, d, tt, k + 1, Append(parsed_nodes, ns[k]))
    ELSE IF count(ns[k].text, d) % 2 # 0 THEN Raised(Unmatched(d))
    ELSE DelimiterLoop(ns, d, tt, k + 1,
                       parsed_nodes \o ChunkNodes(split(ns[k].text, d), tt))

\* Variant of split_nodes_delimiter: the test of line 30 left out, so that
\* every node is split, Plain or not.
RECURSIVE DelimiterLoopAll(_, _, _, _, _)
DelimiterLoopAll(ns, d, tt, k, parsed_nodes) ==
    IF k > Len(ns) THEN Returned(parsed_nodes)
    ELSE IF count(ns[k].text, d) % 2 # 0 THEN Raised(Unmatched(d))
    ELSE DelimiterLoopAll(ns, d, tt, k + 1,
                          parsed_nodes \o ChunkNodes(split(ns[k].text, d), tt))

split_nodes_delimiter_all(ns, d, tt) == DelimiterLoopAll(ns, d, tt, 1, <<>>)

split_nodes_delimiter(ns, d, tt) == DelimiterLoop(ns, d, tt, 1, <<>>)

\* A literal that forgets the "!" of an image.
LiteralOfLink(pattern, m) ==
    <<"[">> \o m[1] \o <<"]", "(">> \o m[2] \o <<")">>

\* f"[{anchor_text}]({link_url})" and f"![{alt_text}]({image_url})"
Literal(pattern, m) ==
    (IF pattern = "image" THEN <<"!">> ELSE <<>>)
        \o <<"[">> \o m[1] \o <<"]", "(">> \o m[2] \o <<")">>

MatchKind(pattern) == IF pattern = "image" THEN "IMAGE" ELSE "LINK"

\* Lines 75-82 / 115-122 for one node: match k of ms against the text still
\* remaining, new_nodes built so far.
RECURSIVE MatchLoop(_, _, _, _, _)
\* Variant of WithBefore: the test len(before) > 0 left out.
WithBeforeAlways(new_nodes, before) ==
    Append(new_nodes, TextNode(before, "TEXT", None))

\* Lines 77-78 / 117-118: the text before the match, when not empty.
WithBefore(new_nodes, before) ==
    IF Len(before) > 0 THEN Append(new_nodes, TextNode(before, "TEXT", None))
    ELSE new_nodes

\* Variant of MatchStep: the loop goes on with the text before the match
\* (before and after taken one for the other in line 80 / 120).
MatchStepSwapped(pattern, ms, k, parts, new_nodes) ==
    IF Len(parts) # 2 THEN Raised(UnpackError)
    ELSE MatchLoop(pattern, ms, k + 1, parts[1],
             Append(new_nodes, TextNode(ms[k][1], MatchKind(pattern), ms[k][2])))

\* Lines 76-80 / 116-120: parts is what text.split(literal, 1) returned.
MatchStep(pattern, ms, k, parts, new_nodes) ==
    IF Len(parts) # 2 THEN Raised(UnpackError)
    ELSE MatchLoop(pattern, ms, k + 1, parts[2],
             Append(WithBefore(new_nodes, parts[1]),
                    TextNode(ms[k][1], MatchKind(pattern), ms[k][2])))

MatchLoop(pattern, ms, k, remaining, new_nodes) ==
    IF k > Len(ms) THEN Returned(WithBefore(new_nodes, remaining))
    ELSE MatchStep(pattern, ms, k,
                   split1(remaining, Literal(pattern, ms[k])), new_nodes)

\* Lines 65-84 / 105-124, from node k on.
RECURSIVE SplitLoop(_, _, _, _)
\* Line 84 / 124: r is what the loop over the matches of node k gave.
ExtendWith(pattern, ns, k, parsed_nodes, r) ==
    IF r.raised # NoError THEN r
    ELSE SplitLoop(pattern, ns, k + 1, parsed_nodes \o r.value)

\* Lines 71-84 / 111-124: ms is what the extractor found in node k.
SplitNode(pattern, ns, k, parsed_nodes, ms) ==
    IF ms = <<>>
    THEN SplitLoop(pattern, ns, k + 1,
                   Append(parsed_nodes, TextNode(ns[k].text, "TEXT", None)))
    ELSE ExtendWith(pattern, ns, k, parsed_nodes,
                    MatchLoop(pattern, ms, 1, ns[k].text, <<>>))

SplitLoop(pattern, ns, k, parsed_nodes) ==
    IF k > Len(ns) THEN Returned(parsed_nodes)
    ELSE IF ns[k].text_type # "TEXT"
         THEN SplitLoop(pattern, ns, k + 1, Append(parsed_nodes, ns[k]))
    ELSE SplitNode(pattern, ns, k, parsed_nodes, findall(pattern, ns[k].text))

split_nodes_link(ns) == SplitLoop("link", ns, 1, <<>>)

split_nodes_image(ns) == SplitLoop("image", ns, 1, <<>>)

\* Lines 181-188: the delimiters in their fixed order, then images, then links.
delimiters == << <<"*", "*">>, <<"_">>, <<"*">>, <<Backtick>> >>
text_types == <<"BOLD", "ITALIC", "ITALIC", "CODE">>

RECURSIVE DelimiterStages(_, _)
\* Line 185: r is what the split on delimiter k gave; an exception ends the loop.
NextStage(r, k) ==
    IF r.raised # NoError THEN r ELSE DelimiterStages(r.value, k + 1)

DelimiterStages(ns, k) ==
    IF k > Len(delimiters) THEN Returned(ns)
    ELSE NextStage(split_nodes_delimiter(ns, delimiters[k], text_types[k]), k)

\* Lines 186 and 187, reached only when nothing raised before.
ImageStage(r) == IF r.raised # NoError THEN r ELSE split_nodes_image(r.value)

LinkStage(r) == IF r.raised # NoError THEN r ELSE split_nodes_link(r.value)

\* Variant of text_to_textnodes: lines 186 and 187 in the other order.
text_to_textnodes_links_first(s) ==
    ImageStage(LinkStage(DelimiterStages(<<TextNode(s, "TEXT", None)>>, 1)))

text_to_textnodes(s) ==
    LinkStage(ImageStage(DelimiterStages(<<TextNode(s, "TEXT", None)>>, 1)))

(***************************************************************************)
(* blocks.py: the block splitter.                                          *)
(***************************************************************************)
\* list(filter(lambda x: x != "", ...))
RECURSIVE FilterNonEmpty(_)
FilterNonEmpty(ss) ==
    IF ss = <<>> THEN <<>>
    ELSE IF Head(ss) # <<>> THEN <<Head(ss)>> \o FilterNonEmpty(Tail(ss))
    ELSE FilterNonEmpty(Tail(ss))

\* map(str.strip, ...)
StripAll(ss) == [k \in 1..Len(ss) |-> strip(ss[k])]

\* Variant of markdown_to_blocks: map(str.strip, ...) left out.
markdown_to_blocks_unstripped(md) == FilterNonEmpty(split(md, <<"\n", "\n">>))

markdown_to_blocks(md) == FilterNonEmpty(StripAll(split(md, <<"\n", "\n">>)))

(***************************************************************************)
(* extract_title, which the tests import from parsing.py and parsing.py    *)
(* does not hold: a scan of the lines of the document for the first that   *)
(* begins with "# ", whose remainder is returned trimmed.                  *)
(***************************************************************************)
NoTitle == <<"markdown does not contain h1 title">>

TitleMark == <<"#", " ">>

\* The scan from line k on, lines being the lines of the document.
RECURSIVE TitleFrom(_, _)
TitleFrom(lines, k) ==
    IF k > Len(lines) THEN Raised(NoTitle)
    ELSE IF StartsWithAt(lines[k], 1, TitleMark)
    THEN Returned(strip(Slice(lines[k], Len(TitleMark) + 1, Len(lines[k]))))
    ELSE TitleFrom(lines, k + 1)

\* A scan from the last line back: the last title wins.
RECURSIVE TitleBack(_, _)
TitleBack(lines, k) ==
    IF k < 1 THEN Raised(NoTitle)
    ELSE IF StartsWithAt(lines[k], 1, TitleMark)
    THEN Returned(strip(Slice(lines[k], Len(TitleMark) + 1, Len(lines[k]))))
    ELSE TitleBack(lines, k - 1)

extract_title_last(md) ==
    TitleBack(split(md, <<"\n">>), Len(split(md, <<"\n">>)))

extract_title(md) == TitleFrom(split(md, <<"\n">>), 1)

(***************************************************************************)
(* htmlnode.py, leafnode.py, parentnode.py: the rendering nodes.  An       *)
(* optional list (children, props) is Absent or Some(list), so that None   *)
(* and the empty list stay apart as they do in the source.                 *)
(***************************************************************************)
Absent == [is_none |-> TRUE, items |-> <<>>]
Some(xs) == [is_none |-> FALSE, items |-> xs]

\* HTMLNode.__init__
HTMLNode(cls, tag, value, children, props) ==
    [class |-> cls, tag |-> tag, value |-> value, children |-> children,
     props |-> props]

\* LeafNode.__init__: children=None
LeafNode(value, tag, props) == HTMLNode("LeafNode", tag, value, Absent, props)

\* ParentNode.__init__: value=None
ParentNode(tag, children, props) ==
    HTMLNode("ParentNode", tag, None, children, props)

\* " ".join(ss)
RECURSIVE JoinWith(_, _)
JoinWith(sep, ss) ==
    IF ss = <<>> THEN <<>>
    ELSE IF Len(ss) = 1 THEN Head(ss)
    ELSE Head(ss) \o sep \o JoinWith(sep, Tail(ss))

\* f'{key}="{value}"'
Attribute(kv) == kv[1] \o <<"=", "\"">> \o kv[2] \o <<"\"">>

\* HTMLNode.props_to_html
props_to_html(n) ==
    IF n.props.is_none THEN <<>>
    ELSE <<" ">> \o JoinWith(<<" ">>,
             [k \in 1..Len(n.props.items) |-> Attribute(n.props.items[k])])

NoValue == <<"All leaf nodes must have a value.">>
NoTag == <<"Parent nodes must have a tag.">>
NoChildren == <<"Parent node missing child nodes.">>

\* f"<{self.tag}{self.props_to_html()}>{inner}</{self.tag}>"
Element(n, inner) ==
    <<"<">> \o n.tag \o props_to_html(n) \o <<">">> \o inner
        \o <<"<", "/">> \o n.tag \o <<">">>

\* LeafNode.to_html
LeafToHtml(n) ==
    IF n.value = None THEN Raised(NoValue)
    ELSE IF n.tag = None THEN Returned(n.value)
    ELSE Returned(Element(n, n.value))

RECURSIVE to_html(_)
RECURSIVE JoinChildren(_, _, _)
\* One turn of the generator of line 56: r is what child k rendered to.
JoinChild(cs, k, acc, r) ==
    IF r.raised # NoError THEN r ELSE JoinChildren(cs, k + 1, acc \o r.value)

\* "".join(child.to_html() for child in self.children)
JoinChildren(cs, k, acc) ==
    IF k > Len(cs) THEN Returned(acc)
    ELSE JoinChild(cs, k, acc, to_html(cs[k]))

\* Line 56 of parentnode.py, once the children are rendered.
WrapChildren(n, r) ==
    IF r.raised # NoError THEN r ELSE Returned(Element(n, r.value))

\* A to_html that takes an empty child list for a missing one.
ParentToHtmlFalsy(n) ==
    IF n.tag = None THEN Raised(NoTag)
    ELSE IF n.children.is_none \/ n.children.items = <<>>
    THEN Raised(NoChildren)
    ELSE WrapChildren(n, JoinChildren(n.children.items, 1, <<>>))

\* ParentNode.to_html
ParentToHtml(n) ==
    IF n.tag = None THEN Raised(NoTag)
    ELSE IF n.children.is_none THEN Raised(NoChildren)
    ELSE WrapChildren(n, JoinChildren(n.children.items, 1, <<>>))

\* Dynamic dispatch of to_html on the class of the node.
to_html(n) ==
    IF n.class = "LeafNode" THEN LeafToHtml(n) ELSE ParentToHtml(n)

(***************************************************************************)
(* textnode.py: text_node_to_html_node (main.py holds the same function).  *)
(***************************************************************************)
\* url if url is not None else ""
OrEmpty(v) == IF v = None THEN <<>> ELSE v

\* A table that hands the url on as it is, None included.
LeafOfKindRawUrl(text_node) ==
    IF text_node.text_type = "TEXT" THEN LeafNode(text_node.text, None, Absent)
    ELSE IF text_node.text_type = "BOLD"
    THEN LeafNode(text_node.text, <<"b">>, Absent)
    ELSE IF text_node.text_type = "ITALIC"
    THEN LeafNode(text_node.text, <<"i">>, Absent)
    ELSE IF text_node.text_type = "CODE"
    THEN LeafNode(text_node.text, <<"c", "o", "d", "e">>, Absent)
    ELSE IF text_node.text_type = "LINK"
    THEN LeafNode(text_node.text, <<"a">>,
                  Some(<< <<<<"h", "r", "e", "f">>, text_node.url>> >>))
    ELSE LeafNode(<<>>, <<"i", "m", "g">>,
                  Some(<< <<<<"s", "r", "c">>, text_node.url>>,
                          <<<<"a", "l", "t">>, OrEmpty(text_node.text)>> >>))

\* Lines 95-111: the cases of the six members of TextType.
LeafOfKind(text_node) ==
    IF text_node.text_type = "TEXT" THEN LeafNode(text_node.text, None, Absent)
    ELSE IF text_node.text_type = "BOLD"
    THEN LeafNode(text_node.text, <<"b">>, Absent)
    ELSE IF text_node.text_type = "ITALIC"
    THEN LeafNode(text_node.text, <<"i">>, Absent)
    ELSE IF text_node.text_type = "CODE"
    THEN LeafNode(text_node.text, <<"c", "o", "d", "e">>, Absent)
    ELSE IF text_node.text_type = "LINK"
    THEN LeafNode(text_node.text, <<"a">>,
                  Some(<< <<<<"h", "r", "e", "f">>, OrEmpty(text_node.url)>> >>))
    ELSE LeafNode(<<>>, <<"i", "m", "g">>,
                  Some(<< <<<<"s", "r", "c">>, OrEmpty(text_node.url)>>,
                          <<<<"a", "l", "t">>, OrEmpty(text_node.text)>> >>))

UnknownTextType == <<"Unknown text type.">>

\* match text_node.text_type: one of the six cases, or case _ (line 112).
text_node_to_html_node(text_node) ==
    IF text_node.text_type \in TextType THEN Returned(LeafOfKind(text_node))
    ELSE Raised(UnknownTextType)

\* list(map(text_node_to_html_node, text_nodes))
MapToHtmlNodes(text_nodes) ==
    [k \in 1..Len(text_nodes) |-> text_node_to_html_node(text_nodes[k]).value]

\* Some node of the list makes text_node_to_html_node raise.
MapRaises(text_nodes) ==
    \E k \in 1..Len(text_nodes) :
        text_node_to_html_node(text_nodes[k]).raised # NoError

\* ParentNode(tag, list(map(text_node_to_html_node, text_to_textnodes(...))))
\* where r is what text_to_textnodes gave: its exception goes through.
InlineParent(tag, r) ==
    IF r.raised # NoError THEN r
    ELSE IF MapRaises(r.value) THEN Raised(UnknownTextType)
    ELSE Returned(ParentNode(tag, Some(MapToHtmlNodes(r.value)), Absent))

(***************************************************************************)
(* blocks.py: the block classifier.                                        *)
(***************************************************************************)
BlockType ==
    {"PARAGRAPH", "HEADING", "CODE", "QUOTE", "UNORDERED_LIST", "ORDERED_LIST"}

Fence == <<Backtick, Backtick, Backtick>>

\* s.startswith(p) and s.endswith(p)
startswith(s, p) == StartsWithAt(s, 1, p)
endswith(s, p) == StartsWithAt(s, Len(s) - Len(p) + 1, p)

Digits == <<"0", "1", "2", "3", "4", "5", "6", "7", "8", "9">>

\* str(i) for i >= 0, as the f-string of line 87 formats it.
RECURSIVE Decimal(_)
Decimal(i) ==
    IF i < 10 THEN <<Digits[i + 1]>>
    ELSE Decimal(i \div 10) \o <<Digits[(i % 10) + 1]>>

\* The first position >= i of s that holds no whitespace (\s+ is greedy, and
\* what follows it in the pattern matches anything).
RECURSIVE SkipWhitespace(_, _)
SkipWhitespace(s, i) ==
    IF i <= Len(s) /\ s[i] \in Whitespace THEN SkipWhitespace(s, i + 1) ELSE i

\* re.match(r"(?P<level>#{1,6})\s+(?P<text>.*)$", block, DOTALL | MULTILINE)
\* with the group level tried at k characters, then fewer: greedy #{1,6}.
\* With DOTALL the group text runs to the end of the block.
NoHeading == [matched |-> FALSE, level |-> 0, text |-> <<>>]

RECURSIVE HeadingMatchFrom(_, _)
HeadingMatchFrom(b, k) ==
    IF k = 0 THEN NoHeading
    ELSE IF /\ k + 1 <= Len(b)
            /\ \A j \in 1..k : b[j] = "#"
            /\ b[k + 1] \in Whitespace
    THEN [matched |-> TRUE, level |-> k,
          text |-> Slice(b, SkipWhitespace(b, k + 1), Len(b))]
    ELSE HeadingMatchFrom(b, k - 1)

MaxLevel == 6

\* Variant of HeadingMatch: #+ in place of #{1,6}.
HeadingMatchAnyLevel(b) == HeadingMatchFrom(b, Len(b))

HeadingMatch(b) == HeadingMatchFrom(b, MaxLevel)

\* all(line.startswith(p) for line in lines)
\* any() in place of all().
AnyStartWith(lines, p) == \E k \in 1..Len(lines) : startswith(lines[k], p)

AllStartWith(lines, p) == \A k \in 1..Len(lines) : startswith(lines[k], p)

\* Variant of Numbered: the loop stopped after its first turn.
NumberedFirstLine(lines) ==
    lines # <<>> /\ startswith(lines[1], Decimal(1) \o <<".", " ">>)

\* Lines 86-90: the for loop ends without break.
Numbered(lines) ==
    \A i \in 1..Len(lines) : startswith(lines[i], Decimal(i) \o <<".", " ">>)

\* Variant of ClassifyLines: no default after the last test.
ClassifyLinesNoDefault(lines) ==
    IF AllStartWith(lines, <<">">>) THEN "QUOTE"
    ELSE IF AllStartWith(lines, <<"-", " ">>) THEN "UNORDERED_LIST"
    ELSE IF Numbered(lines) THEN "ORDERED_LIST"
    ELSE "NONE"

\* Lines 81-92, lines being block.split("\n").
ClassifyLines(lines) ==
    IF AllStartWith(lines, <<">">>) THEN "QUOTE"
    ELSE IF AllStartWith(lines, <<"-", " ">>) THEN "UNORDERED_LIST"
    ELSE IF Numbered(lines) THEN "ORDERED_LIST"
    ELSE "PARAGRAPH"

\* Variant of block_to_block_type: either fence is enough for CODE.
block_to_block_type_either(b) ==
    IF HeadingMatch(b).matched THEN "HEADING"
    ELSE IF startswith(b, Fence) \/ endswith(b, Fence) THEN "CODE"
    ELSE ClassifyLines(split(b, <<"\n">>))

block_to_block_type(b) ==
    IF HeadingMatch(b).matched THEN "HEADING"
    ELSE IF startswith(b, Fence) /\ endswith(b, Fence) THEN "CODE"
    ELSE ClassifyLines(split(b, <<"\n">>))

(***************************************************************************)
(* blocks.py: the converters.  The three findall patterns are anchored at  *)
(* a line start (^ with MULTILINE), take a prefix and then the rest of the *)
(* line: "." matches no newline and $ matches before one.                  *)
(***************************************************************************)
\* ^ with MULTILINE: the start of the text or the position after a newline.
LineStart(s, i) == i = 1 \/ s[i - 1] = "\n"

\* The position of the first newline at or after j, Len(s) + 1 when none.
RECURSIVE EndOfLine(_, _)
EndOfLine(s, j) ==
    IF j > Len(s) \/ s[j] = "\n" THEN j ELSE EndOfLine(s, j + 1)

\* \d+ from position i: the position after the run of digits.
RECURSIVE SkipDigits(_, _)
SkipDigits(s, i) ==
    IF i <= Len(s) /\ \E d \in 1..Len(Digits) : s[i] = Digits[d]
    THEN SkipDigits(s, i + 1) ELSE i

\* \.\s at position j, j being where \d+ stopped after i: the position after
\* the prefix, 0 when the prefix does not match.
NumberPrefixEnd(s, i, j) ==
    IF j > i /\ j + 1 <= Len(s) /\ s[j] = "." /\ s[j + 1] \in Whitespace
    THEN j + 2 ELSE 0

\* The prefix of each pattern at position i: ">" (line 184), "-\s" (line
\* 202), "\d+\.\s" (line 221).  The position after it, 0 when it fails.
PrefixEnd(pattern, s, i) ==
    IF ~LineStart(s, i) THEN 0
    ELSE IF pattern = "quote" THEN (IF s[i] = ">" THEN i + 1 ELSE 0)
    ELSE IF pattern = "ul"
    THEN (IF s[i] = "-" /\ i + 1 <= Len(s) /\ s[i + 1] \in Whitespace
          THEN i + 2 ELSE 0)
    ELSE NumberPrefixEnd(s, i, SkipDigits(s, i))

RECURSIVE LinesFrom(_, _, _)
\* p is where the prefix tried at i ended: a match gives the group (.*) and
\* the scan resumes where the match stopped.
LinesStep(pattern, s, i, p) ==
    IF p = 0 THEN LinesFrom(pattern, s, i + 1)
    ELSE <<Slice(s, p, EndOfLine(s, p) - 1)>>
             \o LinesFrom(pattern, s, EndOfLine(s, p))

LinesFrom(pattern, s, i) ==
    IF i > Len(s) THEN <<>>
    ELSE LinesStep(pattern, s, i, PrefixEnd(pattern, s, i))

\* A findall that keeps only the groups that matched some text.
findall_lines_nonempty(pattern, b) ==
    SelectSeq(LinesFrom(pattern, b, 1), LAMBDA item : item # <<>>)

\* re.findall(pattern, block, flags=re.MULTILINE)
findall_lines(pattern, b) == LinesFrom(pattern, b, 1)

\* A heading tag that forgets the level.
HeadingTagOne(level) == <<"h", "1">>

\* f"h{len(match.group('level'))}"
HeadingTag(level) == <<"h">> \o Decimal(level)

\* Lines 147-150, m being the match of line 146.
HeadingOf(m) ==
    IF ~m.matched THEN InlineParent(<<"h", "1">>, text_to_textnodes(<<>>))
    ELSE InlineParent(HeadingTag(m.level), text_to_textnodes(m.text))

block_to_heading(b) == HeadingOf(HeadingMatch(b))

\* s.lstrip("\n")
RECURSIVE lstrip_newlines(_)
lstrip_newlines(s) ==
    IF s # <<>> /\ Head(s) = "\n" THEN lstrip_newlines(Tail(s)) ELSE s

\* block[3:-3].lstrip("\n")
CodeText(b) == lstrip_newlines(Slice(b, 4, Len(b) - 3))

CodeTag == <<"c", "o", "d", "e">>

\* blocks.py lines 165-169
block_to_code(b) ==
    Returned(ParentNode(<<"p", "r", "e">>,
        Some(<<ParentNode(CodeTag,
                 Some(<<text_node_to_html_node(
                          TextNode(CodeText(b), "TEXT", None)).value>>),
                 Absent)>>),
        Absent))

\* main.py lines 124-126
main_block_to_code(b) ==
    Returned(ParentNode(<<"p", "r", "e">>,
        Some(<<LeafNode(CodeText(b), CodeTag, Absent)>>), Absent))

\* line.strip() for line in match
block_to_quote(b) ==
    InlineParent(<<"b", "l", "o", "c", "k", "q", "u", "o", "t", "e">>,
        text_to_textnodes(
            JoinWith(<<" ">>, StripAll(findall_lines("quote", b)))))

RECURSIVE ListNodes(_, _, _)
\* One turn of the loop of lines 204-205 / 223-224: r is the li of item k.
ListNode(items, k, list_nodes, r) ==
    IF r.raised # NoError THEN r
    ELSE ListNodes(items, k + 1, Append(list_nodes, r.value))

ListNodes(items, k, list_nodes) ==
    IF k > Len(items) THEN Returned(list_nodes)
    ELSE ListNode(items, k, list_nodes,
                  InlineParent(<<"l", "i">>, text_to_textnodes(items[k])))

\* return ParentNode(tag, list_nodes)
ListParent(tag, r) ==
    IF r.raised # NoError THEN r
    ELSE Returned(ParentNode(tag, Some(r.value), Absent))

block_to_ul(b) ==
    ListParent(<<"u", "l">>, ListNodes(findall_lines("ul", b), 1, <<>>))

block_to_ol(b) ==
    ListParent(<<"o", "l">>, ListNodes(findall_lines("ol", b), 1, <<>>))

\* blocks.py lines 239-240
block_to_paragraph(b) ==
    InlineParent(<<"p">>,
        text_to_textnodes(JoinWith(<<" ">>, split(b, <<"\n">>))))

\* main.py line 196
main_block_to_paragraph(b) == InlineParent(<<"p">>, text_to_textnodes(b))

InvalidBlockType == <<"invalid block type">>

\* blocks.py lines 115-129: the match statement.
ConvertBlock(b, bt) ==
    IF bt = "HEADING" THEN block_to_heading(b)
    ELSE IF bt = "CODE" THEN block_to_code(b)
    ELSE IF bt = "QUOTE" THEN block_to_quote(b)
    ELSE IF bt = "UNORDERED_LIST" THEN block_to_ul(b)
    ELSE IF bt = "ORDERED_LIST" THEN block_to_ol(b)
    ELSE IF bt = "PARAGRAPH" THEN block_to_paragraph(b)
    ELSE Raised(InvalidBlockType)

\* main.py lines 76-88: the heading, quote and list converters of main.py
\* are those of blocks.py, line for line.
main_ConvertBlock(b, bt) ==
    IF bt = "HEADING" THEN block_to_heading(b)
    ELSE IF bt = "CODE" THEN main_block_to_code(b)
    ELSE IF bt = "QUOTE" THEN block_to_quote(b)
    ELSE IF bt = "UNORDERED_LIST" THEN block_to_ul(b)
    ELSE IF bt = "ORDERED_LIST" THEN block_to_ol(b)
    ELSE main_block_to_paragraph(b)

RECURSIVE ConvertBlocks(_, _, _, _)
\* children.append(...) of the loop of line 113, r being the converted block.
AppendChild(impl, bs, k, children, r) ==
    IF r.raised # NoError THEN r
    ELSE ConvertBlocks(impl, bs, k + 1, Append(children, r.value))

ConvertBlocks(impl, bs, k, children) ==
    IF k > Len(bs) THEN Returned(children)
    ELSE IF impl = "blocks"
    THEN AppendChild(impl, bs, k, children,
                     ConvertBlock(bs[k], block_to_block_type(bs[k])))
    ELSE AppendChild(impl, bs, k, children,
                     main_ConvertBlock(bs[k], block_to_block_type(bs[k])))

\* A return that takes an empty list of children for none at all.
DivOfChildrenOrNone(r) ==
    IF r.raised # NoError THEN r
    ELSE IF r.value = <<>>
    THEN Returned(ParentNode(<<"d", "i", "v">>, Absent, Absent))
    ELSE Returned(ParentNode(<<"d", "i", "v">>, Some(r.value), Absent))

\* return ParentNode("div", children)
DivOf(r) ==
    IF r.raised # NoError THEN r
    ELSE Returned(ParentNode(<<"d", "i", "v">>, Some(r.value), Absent))

markdown_to_html_node(md) ==
    DivOf(ConvertBlocks("blocks", markdown_to_blocks(md), 1, <<>>))

main_markdown_to_html_node(md) ==
    DivOf(ConvertBlocks("main", markdown_to_blocks(md), 1, <<>>))

\* ParentNode.__repr__ of code_node, whose one child is an untagged leaf:
\* f"ParentNode({self.tag}, children: {self.children}, {self.props})"
CodeNodeRepr(b) ==
    <<"ParentNode(code, children: [LeafNode(None, ">> \o CodeText(b)
        \o <<", None)], None)">>

\* Line 168 of blocks.py: print(f"code_node : {code_node}"), one line on
\* standard output at every call of block_to_code.
block_to_code_prints(b) == <<<<"code_node : ">> \o CodeNodeRepr(b)>>

\* What the call of the converter of a block prints.
ConvertBlockPrints(b, bt) ==
    IF bt = "CODE" THEN block_to_code_prints(b) ELSE <<>>

\* What the loop of line 113 prints from block k on: the prints of the
\* blocks converted until one of them raises.
RECURSIVE ConvertBlocksPrints(_, _)
ConvertBlocksPrints(bs, k) ==
    IF k > Len(bs) THEN <<>>
    ELSE ConvertBlockPrints(bs[k], block_to_block_type(bs[k]))
         \o (IF ConvertBlock(bs[k], block_to_block_type(bs[k])).raised
                    # NoError
              THEN <<>> ELSE ConvertBlocksPrints(bs, k + 1))

\* What blocks.markdown_to_html_node(md) writes to standard output.
markdown_to_html_node_prints(md) ==
    ConvertBlocksPrints(markdown_to_blocks(md), 1)

(***************************************************************************)
(* The inputs.  Delimiter handling is exercised on every string over       *)
(* DelimiterChars up to MaxLen characters; bracket handling on every       *)
(* concatenation of up to MaxPieces of Pieces, which hold whole, broken    *)
(* and non-http bracket constructs; documents on every string over         *)
(* DocChars up to MaxDocLen characters.                                    *)
(***************************************************************************)
Strings(A, n) == UNION {[1..k -> A] : k \in 0..n}

DelimiterChars == {"a", "*", "_", Backtick}

Pieces == {
    <<"!">>,
    <<"_">>,
    <<"[", "a", "]", "(", "h", "t", "t", "p", ":", "/", "/", ")">>,
    <<"[", "a", "]", "(", "h", "t", "t", "p", ":", "/", "/">>,
    <<"[", "b", "]", "(", "h", "t", "t", "p", "s", ":", "/", "/", "c", ")">>,
    <<"[", "a", "]", "(", "b", ")">> }

DelimiterTexts == Strings(DelimiterChars, MaxLen)

PieceTexts == {Concat(ps) : ps \in Strings(Pieces, MaxPieces)}

InlineTexts == DelimiterTexts \cup PieceTexts

DocChars == {"a", " ", "\n"}

Docs == Strings(DocChars, MaxDocLen)

\* No block classified or converted, no tree built or rendered.
NoBlockCall ==
    /\ block = <<>>
    /\ block_type = None
    /\ tree = None
    /\ html = None
    /\ stdout = <<>>
    /\ title = None

\* No call of the inline parser from outside the converters.
NoInlineCall ==
    /\ text = <<>>
    /\ nodes = <<>>
    /\ old_nodes = <<>>
    /\ delimiter = <<>>
    /\ text_type = "TEXT"
    /\ pairs = <<>>

(***************************************************************************)
(* The inline parser as a state machine: a text, then any sequence of      *)
(* calls of the public functions of parsing.py, each splitter on the list  *)
(* the call before it returned (as text_to_textnodes chains them).         *)
(***************************************************************************)
InitInline ==
    /\ text \in InlineTexts
    /\ nodes = <<TextNode(text, "TEXT", None)>>
    /\ fn = "init"
    /\ old_nodes = <<>>
    /\ delimiter = <<>>
    /\ text_type = "TEXT"
    /\ raised = NoError
    /\ pairs = <<>>
    /\ markdown = <<>>
    /\ blocks = <<>>
    /\ NoBlockCall

\* What a call gave: the list it returned, or the exception it raised.
Result(r) ==
    /\ nodes' = r.value
    /\ raised' = r.raised

\* split_nodes_delimiter(nodes, delimiters[k], text_types[k])
SplitNodesDelimiter(k) ==
    /\ raised = NoError
    /\ Result(split_nodes_delimiter(nodes, delimiters[k], text_types[k]))
    /\ fn' = "split_nodes_delimiter"
    /\ old_nodes' = nodes
    /\ delimiter' = delimiters[k]
    /\ text_type' = text_types[k]
    /\ UNCHANGED <<text, pairs, markdown, blocks>>
    /\ UNCHANGED htmlVars

\* split_nodes_image(nodes)
SplitNodesImage ==
    /\ raised = NoError
    /\ Result(split_nodes_image(nodes))
    /\ fn' = "split_nodes_image"
    /\ old_nodes' = nodes
    /\ delimiter' = <<>>
    /\ text_type' = "IMAGE"
    /\ UNCHANGED <<text, pairs, markdown, blocks>>
    /\ UNCHANGED htmlVars

\* split_nodes_link(nodes)
SplitNodesLink ==
    /\ raised = NoError
    /\ Result(split_nodes_link(nodes))
    /\ fn' = "split_nodes_link"
    /\ old_nodes' = nodes
    /\ delimiter' = <<>>
    /\ text_type' = "LINK"
    /\ UNCHANGED <<text, pairs, markdown, blocks>>
    /\ UNCHANGED htmlVars

\* extract_markdown_images(text)
ExtractMarkdownImages ==
    /\ fn = "init"
    /\ pairs' = extract_markdown_images(text)
    /\ fn' = "extract_markdown_images"
    /\ UNCHANGED <<text, nodes, old_nodes, delimiter, text_type, raised,
                   markdown, blocks>>
    /\ UNCHANGED htmlVars

\* extract_markdown_links(text)
ExtractMarkdownLinks ==
    /\ fn = "init"
    /\ pairs' = extract_markdown_links(text)
    /\ fn' = "extract_markdown_links"
    /\ UNCHANGED <<text, nodes, old_nodes, delimiter, text_type, raised,
                   markdown, blocks>>
    /\ UNCHANGED htmlVars

\* text_to_textnodes(text)
TextToTextnodes ==
    /\ fn = "init"
    /\ Result(text_to_textnodes(text))
    /\ fn' = "text_to_textnodes"
    /\ old_nodes' = nodes
    /\ delimiter' = <<>>
    /\ text_type' = "TEXT"
    /\ UNCHANGED <<text, pairs, markdown, blocks>>
    /\ UNCHANGED htmlVars

NextInline ==
    \/ \E k \in 1..Len(delimiters) : SplitNodesDelimiter(k)
    \/ SplitNodesImage
    \/ SplitNodesLink
    \/ ExtractMarkdownImages
    \/ ExtractMarkdownLinks
    \/ TextToTextnodes

SpecInline == InitInline /\ [][NextInline]_vars

(***************************************************************************)
(* A text that is one well-formed link, "[" + t + "](" + u + ")": the link *)
(* text and the rest of the URL hold a letter or a delimiter character,    *)
(* the URL begins with one of the two prefixes of the pattern.             *)
(***************************************************************************)
MaxPartLen == 2

LinkTextChars == {"a", "_", "*", Backtick}

UrlChars == {"x", "_"}

UrlPrefixes == {
    <<"h", "t", "t", "p", ":", "/", "/">>,
    <<"h", "t", "t", "p", "s", ":", "/", "/">> }

LinkTextParts == Strings(LinkTextChars, MaxPartLen)

LinkUrls == {p \o r : p \in UrlPrefixes, r \in Strings(UrlChars, MaxPartLen)}

OneLinkTexts ==
    {<<"[">> \o t \o <<"]", "(">> \o u \o <<")">> :
        t \in LinkTextParts, u \in LinkUrls}

InitLinks ==
    /\ text \in OneLinkTexts
    /\ nodes = <<TextNode(text, "TEXT", None)>>
    /\ fn = "init"
    /\ old_nodes = <<>>
    /\ delimiter = <<>>
    /\ text_type = "TEXT"
    /\ raised = NoError
    /\ pairs = <<>>
    /\ markdown = <<>>
    /\ blocks = <<>>
    /\ NoBlockCall

NextLinks == TextToTextnodes \/ ExtractMarkdownLinks

SpecLinks == InitLinks /\ [][NextLinks]_vars

(***************************************************************************)
(* The block splitter: a document, then the call of markdown_to_blocks.    *)
(***************************************************************************)
InitBlocks ==
    /\ markdown \in Docs
    /\ blocks = <<>>
    /\ fn = "init"
    /\ text = <<>>
    /\ nodes = <<>>
    /\ old_nodes = <<>>
    /\ delimiter = <<>>
    /\ text_type = "TEXT"
    /\ raised = NoError
    /\ pairs = <<>>
    /\ NoBlockCall

\* markdown_to_blocks(markdown)
MarkdownToBlocks ==
    /\ fn = "init"
    /\ blocks' = markdown_to_blocks(markdown)
    /\ fn' = "markdown_to_blocks"
    /\ UNCHANGED <<markdown, text, nodes, old_nodes, delimiter, text_type,
                   raised, pairs>>
    /\ UNCHANGED htmlVars

NextBlocks == MarkdownToBlocks

SpecBlocks == InitBlocks /\ [][NextBlocks]_vars

(***************************************************************************)
(* The classifier: a block, then the call of block_to_block_type.  Blocks  *)
(* are the concatenations of up to MaxBlockPieces of BlockPieces: the      *)
(* markers of the five tests, short and long runs of "#", and filler.      *)
(***************************************************************************)
MaxBlockPieces == 3

BlockPieces == {
    <<"#">>,
    <<"#", "#", "#", "#", "#", "#">>,
    <<" ">>,
    <<"\n">>,
    <<"a">>,
    Fence,
    <<">">>,
    <<"-", " ">>,
    <<"1", ".", " ">>,
    <<"2", ".", " ">>,
    <<"3", ".", " ">> }

BlockTexts == {Concat(ps) : ps \in Strings(BlockPieces, MaxBlockPieces)}

InitClassify ==
    /\ block \in BlockTexts
    /\ block_type = None
    /\ tree = None
    /\ html = None
    /\ stdout = <<>>
    /\ title = None
    /\ fn = "init"
    /\ raised = NoError
    /\ markdown = <<>>
    /\ blocks = <<>>
    /\ NoInlineCall

\* block_to_block_type(block)
BlockToBlockType ==
    /\ fn = "init"
    /\ block_type' = block_to_block_type(block)
    /\ fn' = "block_to_block_type"
    /\ UNCHANGED <<block, tree, html, stdout, title, raised, markdown,
                   blocks>>
    /\ UNCHANGED inlineVars

NextClassify == BlockToBlockType

SpecClassify == InitClassify /\ [][NextClassify]_vars

(***************************************************************************)
(* The converters: a text, handed as a document to markdown_to_html_node   *)
(* of blocks.py or of main.py, or as a block to the converter of its       *)
(* block type; then to_html on the tree returned.                          *)
(***************************************************************************)
MaxDocPieces == 4

DocPieces == {
    Fence,
    <<"\n">>,
    <<"a">>,
    <<"*">>,
    <<"#">>,
    <<"#", " ">> }

DocTexts == {Concat(ps) : ps \in Strings(DocPieces, MaxDocPieces)}

ListPieces == {
    <<"-", " ">>,
    <<"1", ".", " ">>,
    <<"2", ".", " ">>,
    <<"\n">>,
    <<"a">>,
    <<"*">> }

ListTexts == {Concat(ps) : ps \in Strings(ListPieces, MaxDocPieces)}

\* Before any call: the text is at hand as a document and as a block.
Unconverted ==
    /\ block = markdown
    /\ blocks = <<>>
    /\ block_type = None
    /\ tree = None
    /\ html = None
    /\ stdout = <<>>
    /\ title = None
    /\ fn = "init"
    /\ raised = NoError
    /\ NoInlineCall

InitConvert == markdown \in DocTexts /\ Unconverted

InitLists == markdown \in ListTexts /\ Unconverted

\* What a converter gave: the tree it returned, or the exception it raised.
Converted(name, r) ==
    /\ fn = "init"
    /\ fn' = name
    /\ tree' = r.value
    /\ raised' = r.raised
    /\ UNCHANGED <<markdown, block, html, title>>
    /\ UNCHANGED inlineVars

\* blocks.markdown_to_html_node(markdown)
MarkdownToHtmlNode ==
    /\ Converted("markdown_to_html_node", markdown_to_html_node(markdown))
    /\ blocks' = markdown_to_blocks(markdown)
    /\ stdout' = stdout \o markdown_to_html_node_prints(markdown)
    /\ UNCHANGED block_type

\* main.markdown_to_html_node(markdown)
MainMarkdownToHtmlNode ==
    /\ Converted("main.markdown_to_html_node",
                 main_markdown_to_html_node(markdown))
    /\ blocks' = markdown_to_blocks(markdown)
    /\ UNCHANGED <<block_type, stdout>>

\* A converter of blocks.py called on a block of its type.
BlockConverted(name, r, printed) ==
    /\ Converted(name, r)
    /\ block_type' = block_to_block_type(block)
    /\ stdout' = stdout \o printed
    /\ UNCHANGED blocks

BlockToHeading ==
    /\ block_to_block_type(block) = "HEADING"
    /\ BlockConverted("block_to_heading", block_to_heading(block), <<>>)

BlockToCode ==
    /\ block_to_block_type(block) = "CODE"
    /\ BlockConverted("block_to_code", block_to_code(block),
                      block_to_code_prints(block))

MainBlockToCode ==
    /\ block_to_block_type(block) = "CODE"
    /\ BlockConverted("main.block_to_code", main_block_to_code(block), <<>>)

BlockToUl ==
    /\ block_to_block_type(block) = "UNORDERED_LIST"
    /\ BlockConverted("block_to_ul", block_to_ul(block), <<>>)

BlockToOl ==
    /\ block_to_block_type(block) = "ORDERED_LIST"
    /\ BlockConverted("block_to_ol", block_to_ol(block), <<>>)

BlockToParagraph ==
    /\ block_to_block_type(block) = "PARAGRAPH"
    /\ BlockConverted("block_to_paragraph", block_to_paragraph(block), <<>>)

MainBlockToParagraph ==
    /\ block_to_block_type(block) = "PARAGRAPH"
    /\ BlockConverted("main.block_to_paragraph",
                      main_block_to_paragraph(block), <<>>)

\* What to_html gave: the string, or the exception.
Rendered(r) ==
    /\ html' = r.value
    /\ raised' = r.raised
    /\ UNCHANGED <<fn, tree, markdown, blocks, block, block_type, stdout,
                   title>>
    /\ UNCHANGED inlineVars

\* tree.to_html(), once, on a tree that a call returned.
ToHtml ==
    /\ fn # "init"
    /\ raised = NoError
    /\ html = None
    /\ Rendered(to_html(tree))

NextConvert ==
    \/ MarkdownToHtmlNode
    \/ MainMarkdownToHtmlNode
    \/ BlockToHeading
    \/ BlockToCode
    \/ MainBlockToCode
    \/ BlockToParagraph
    \/ MainBlockToParagraph
    \/ ToHtml

SpecConvert == InitConvert /\ [][NextConvert]_vars

\* The two list converters, directly and through markdown_to_html_node.
NextLists ==
    \/ MarkdownToHtmlNode
    \/ BlockToUl
    \/ BlockToOl
    \/ ToHtml

SpecLists == InitLists /\ [][NextLists]_vars

(***************************************************************************)
(* The title of a document: a document of DocTexts, then extract_title.    *)
(***************************************************************************)
\* extract_title(markdown)
ExtractTitle ==
    /\ fn = "init"
    /\ fn' = "extract_title"
    /\ title' = extract_title(markdown).value
    /\ raised' = extract_title(markdown).raised
    /\ UNCHANGED <<markdown, blocks, block, block_type, tree, html, stdout>>
    /\ UNCHANGED inlineVars

NextTitle == ExtractTitle

SpecTitle == InitConvert /\ [][NextTitle]_vars

(***************************************************************************)
(* Whole documents of every kind of block: up to MaxAnyPieces of           *)
(* AnyPieces, which hold the marker of each block type, the line break,    *)
(* the blank line that separates blocks, and an inline delimiter.          *)
(***************************************************************************)
MaxAnyPieces == 3

AnyPieces == {
    <<"#", " ">>,
    Fence,
    <<">">>,
    <<"-", " ">>,
    <<"1", ".", " ">>,
    <<"\n">>,
    <<"\n", "\n">>,
    <<"a">>,
    <<"*">> }

AnyTexts == {Concat(ps) : ps \in Strings(AnyPieces, MaxAnyPieces)}

InitDocument == markdown \in AnyTexts /\ Unconverted

BlockToQuote ==
    /\ block_to_block_type(block) = "QUOTE"
    /\ BlockConverted("block_to_quote", block_to_quote(block), <<>>)

NextDocument ==
    \/ MarkdownToHtmlNode
    \/ MainMarkdownToHtmlNode
    \/ BlockToQuote
    \/ ToHtml

SpecDocument == InitDocument /\ [][NextDocument]_vars

(***************************************************************************)
(* text_node_to_html_node on text nodes built by hand, as the tests of     *)
(* textnode.py build them: each member of TextType and one kind that is    *)
(* none of them, with and without url.                                     *)
(***************************************************************************)
Kinds == TextType \cup {"UNKNOWN"}

TableTexts == {<<>>, <<"a">>, <<"a", "b">>, <<"*">>}

TableUrls == {None, <<>>, <<"u">>, <<"h", "t", "t", "p", ":", "/", "/", "x">>}

InitTable ==
    /\ \E t \in TableTexts, k \in Kinds, u \in TableUrls :
           /\ text = t
           /\ nodes = <<TextNode(t, k, u)>>
    /\ fn = "init"
    /\ raised = NoError
    /\ old_nodes = <<>>
    /\ delimiter = <<>>
    /\ text_type = "TEXT"
    /\ pairs = <<>>
    /\ markdown = <<>>
    /\ blocks = <<>>
    /\ NoBlockCall

\* text_node_to_html_node(text_node)
TextNodeToHtmlNode ==
    /\ Converted("text_node_to_html_node", text_node_to_html_node(nodes[1]))
    /\ UNCHANGED <<blocks, block_type, stdout>>

NextTable == TextNodeToHtmlNode \/ ToHtml

SpecTable == InitTable /\ [][NextTable]_vars

(***************************************************************************)
(* The renderer on trees built by hand, as the tests of leafnode.py and    *)
(* parentnode.py build them: a leaf, a parent of leaves, or a parent of up *)
(* to MaxChildren such nodes; tags, values and child lists may be None.    *)
(***************************************************************************)
MaxChildren == 2

GoodLeaf == LeafNode(<<"a">>, <<"b">>, Absent)
RawLeaf == LeafNode(<<"a">>, None, Absent)
NoValueLeaf == LeafNode(None, <<"b">>, Absent)

Kids == {
    GoodLeaf,
    RawLeaf,
    NoValueLeaf,
    LeafNode(<<>>, <<"b">>, Absent),
    LeafNode(<<"a">>, <<"a">>, Some(<<<<<<"h", "r", "e", "f">>, <<"u">>>>>>)),
    LeafNode(<<"a">>, <<"a">>, Some(<<>>)),
    LeafNode(<<>>, <<"i", "m", "g">>,
             Some(<<<<<<"s", "r", "c">>, <<"u">>>>, <<<<"a", "l", "t">>, <<"a">>>>>>)),
    ParentNode(<<"p">>, Some(<<>>), Absent),
    ParentNode(<<"p">>, Absent, Absent),
    ParentNode(None, Some(<<GoodLeaf>>), Absent),
    ParentNode(<<"p">>, Some(<<GoodLeaf, RawLeaf>>), Absent),
    ParentNode(<<"p">>, Some(<<NoValueLeaf>>), Absent)}

ChildLists == {Absent} \cup {Some(cs) : cs \in Strings(Kids, MaxChildren)}

Trees ==
    Kids \cup {ParentNode(tag, cs, props) :
                   tag \in {None, <<"d", "i", "v">>},
                   cs \in ChildLists,
                   props \in {Absent, Some(<<>>),
                               Some(<<<<<<"i", "d">>, <<"x">>>>>>)}}

\* A node was constructed; nothing was rendered yet.
InitRender ==
    /\ tree \in Trees
    /\ fn = tree.class
    /\ html = None
    /\ raised = NoError
    /\ markdown = <<>>
    /\ blocks = <<>>
    /\ block = <<>>
    /\ block_type = None
    /\ title = None
    /\ stdout = <<>>
    /\ NoInlineCall

\* tree.props_to_html(), once, on a node built by hand.
PropsToHtml ==
    /\ fn \in {"LeafNode", "ParentNode"}
    /\ html = None
    /\ raised = NoError
    /\ html' = props_to_html(tree)
    /\ fn' = "props_to_html"
    /\ UNCHANGED <<raised, tree, markdown, blocks, block, block_type,
                   stdout, title>>
    /\ UNCHANGED inlineVars

NextRender == ToHtml \/ PropsToHtml

SpecRender == InitRender /\ [][NextRender]_vars

(***************************************************************************)
(* Vocabulary of the properties, stated without the operators above.       *)
(***************************************************************************)
\* The positions where p occurs in s.
Occurrences(s, p) == {i \in 1..Len(s) : StartsWithAt(s, i, p)}

\* No two occurrences of P share a character of s.
NonOverlapping(P, p) == \A i, j \in P : i < j => i + Len(p) <= j

\* The number of times s contains p, occurrences not overlapping: the size
\* of the largest set of occurrences no two of which overlap.
Contains(s, p, n) ==
    /\ \E P \in SUBSET Occurrences(s, p) :
            NonOverlapping(P, p) /\ Cardinality(P) = n
    /\ \A P \in SUBSET Occurrences(s, p) :
            NonOverlapping(P, p) => Cardinality(P) <= n

ContainsOdd(s, p) == \E n \in 0..Len(s) : n % 2 = 1 /\ Contains(s, p, n)

ContainsEven(s, p) == \E n \in 0..Len(s) : n % 2 = 0 /\ Contains(s, p, n)

IsPlain(n) == n.text_type = "TEXT"

\* a is b with some elements left out.
RECURSIVE IsSubseq(_, _)
IsSubseq(a, b) ==
    IF a = <<>> THEN TRUE
    ELSE IF b = <<>> THEN FALSE
    ELSE IF Head(a) = Head(b) THEN IsSubseq(Tail(a), Tail(b))
    ELSE IsSubseq(a, Tail(b))

\* The nodes of ns that are not Plain, in order.
RECURSIVE NonPlain(_)
NonPlain(ns) ==
    IF ns = <<>> THEN <<>>
    ELSE IF IsPlain(Head(ns)) THEN NonPlain(Tail(ns))
    ELSE <<Head(ns)>> \o NonPlain(Tail(ns))

Splitters == {"split_nodes_delimiter", "split_nodes_image", "split_nodes_link"}

\* The last call was a splitter on the one Plain node holding the text.
OnWholeText == old_nodes = <<TextNode(text, "TEXT", None)>>

(***************************************************************************)
(* C1: split_nodes_delimiter raises the unmatched-delimiter error whenever *)
(* some Plain node of its list contains the delimiter an odd number of     *)
(* times, wherever that node stands and however many Plain nodes before it *)
(* could be split, and then returns no list at all.                        *)
(***************************************************************************)
C1_OddCountRaises ==
    (/\ fn = "split_nodes_delimiter"
     /\ \E k \in 1..Len(old_nodes) :
            IsPlain(old_nodes[k]) /\ ContainsOdd(old_nodes[k].text, delimiter))
    => /\ raised = Unmatched(delimiter)
       /\ nodes = None

\* The odd node is not the first, and a Plain node before it holds a pair.
C1_Witness ==
    /\ fn = "split_nodes_delimiter"
    /\ raised # NoError
    /\ \E k \in 2..Len(old_nodes) :
          /\ IsPlain(old_nodes[k])
          /\ ContainsOdd(old_nodes[k].text, delimiter)
          /\ \E j \in 1..(k - 1) :
                IsPlain(old_nodes[j]) /\ Contains(old_nodes[j].text, delimiter, 2)

(***************************************************************************)
(* C2: when the text of a single Plain node contains the delimiter an even *)
(* number of times, the split drops no character: the texts of the         *)
(* returned nodes, with the delimiter put back before and after each node  *)
(* of the given type, concatenate to the text.                             *)
(***************************************************************************)
Reinserted(n, d, tt) == IF n.text_type = tt THEN d \o n.text \o d ELSE n.text

RECURSIVE Rebuilt(_, _, _)
Rebuilt(ns, d, tt) ==
    IF ns = <<>> THEN <<>>
    ELSE Reinserted(Head(ns), d, tt) \o Rebuilt(Tail(ns), d, tt)

C2_NoCharacterDropped ==
    (/\ fn = "split_nodes_delimiter"
     /\ OnWholeText
     /\ ContainsEven(text, delimiter))
    => /\ raised = NoError
       /\ Rebuilt(nodes, delimiter, text_type) = text

\* A two-character delimiter was found twice, around some text.
C2_Witness ==
    /\ fn = "split_nodes_delimiter"
    /\ OnWholeText
    /\ Len(delimiter) = 2
    /\ Contains(text, delimiter, 2)
    /\ raised = NoError
    /\ \E k \in 1..Len(nodes) :
          nodes[k].text_type = text_type /\ nodes[k].text # <<>>

(***************************************************************************)
(* C3: a Plain node whose text contains the delimiter 2k times gives       *)
(* exactly 2k+1 nodes, Plain at the even 0-based positions and of the      *)
(* given type at the odd ones, empty chunks included; any other node gives *)
(* itself.                                                                 *)
(***************************************************************************)
Alternating(n, tt) == [i \in 1..n |-> IF i % 2 = 1 THEN "TEXT" ELSE tt]

TimesContained(s, p) == CHOOSE n \in 0..Len(s) : Contains(s, p, n)

RECURSIVE ExpectedTypes(_, _, _)
ExpectedTypes(ns, d, tt) ==
    IF ns = <<>> THEN <<>>
    ELSE (IF IsPlain(Head(ns))
          THEN Alternating(TimesContained(Head(ns).text, d) + 1, tt)
          ELSE <<Head(ns).text_type>>) \o ExpectedTypes(Tail(ns), d, tt)

TypesOf(ns) == [i \in 1..Len(ns) |-> ns[i].text_type]

C3_AlternatingChunks ==
    (fn = "split_nodes_delimiter" /\ raised = NoError)
    => TypesOf(nodes) = ExpectedTypes(old_nodes, delimiter, text_type)

\* Two pairs with nothing between the delimiters: five nodes, three empty.
C3_Witness ==
    /\ fn = "split_nodes_delimiter"
    /\ OnWholeText
    /\ Contains(text, delimiter, 4)
    /\ Len(nodes) = 5
    /\ \E i \in {2, 4} : nodes[i].text = <<>> /\ nodes[i].text_type = text_type
    /\ nodes[1].text = <<>>

(***************************************************************************)
(* C4: each splitter returns every node that is not Plain unchanged and in *)
(* its order; so what one stage made Bold, Italic, Code, Image or Link no  *)
(* later stage alters, whatever delimiters or brackets its text holds.     *)
(***************************************************************************)
C4_NonPlainUnchanged ==
    (fn \in Splitters /\ raised = NoError)
    => /\ IsSubseq(NonPlain(old_nodes), nodes)
       /\ \A tt \in TextType \ {"TEXT", text_type} :
              Len(SelectSeq(nodes, LAMBDA n : n.text_type = tt))
                  = Len(SelectSeq(old_nodes, LAMBDA n : n.text_type = tt))

\* A node that is not Plain holds the delimiter twice and is returned as is.
C4_Witness ==
    /\ fn = "split_nodes_delimiter"
    /\ raised = NoError
    /\ \E k \in 1..Len(old_nodes) :
          /\ ~IsPlain(old_nodes[k])
          /\ Contains(old_nodes[k].text, delimiter, 2)
          /\ \E j \in 1..Len(nodes) : nodes[j] = old_nodes[k]

(***************************************************************************)
(* Bracket constructs as they stand in a text, and where the text of each  *)
(* node stood in the text the nodes were cut from.                         *)
(***************************************************************************)
LinkSyntax(t, u) == <<"[">> \o t \o <<"]", "(">> \o u \o <<")">>

ImageSyntax(t, u) == <<"!">> \o LinkSyntax(t, u)

\* Position i of s does not follow a "!".
Unpreceded(s, i) == ~(i > 1 /\ s[i - 1] = "!")

\* The characters a node stands for, its delimiters or brackets included.
SourceLen(n) ==
    CASE n.text_type = "TEXT" -> Len(n.text)
      [] n.text_type = "BOLD" -> Len(n.text) + 4
      [] n.text_type \in {"ITALIC", "CODE"} -> Len(n.text) + 2
      [] n.text_type = "LINK" -> Len(n.text) + Len(n.url) + 4
      [] n.text_type = "IMAGE" -> Len(n.text) + Len(n.url) + 5

RECURSIVE OffsetOf(_, _)
OffsetOf(ns, k) ==
    IF k = 1 THEN 1 ELSE OffsetOf(ns, k - 1) + SourceLen(ns[k - 1])

Range(f) == {f[k] : k \in DOMAIN f}

(***************************************************************************)
(* C5: extract_markdown_links returns no pair for a bracket pair whose "[" *)
(* follows a "!": the pairs it returns stand in the text as links, from    *)
(* left to right, each at a "[" that follows no "!", so it returns nothing *)
(* when every "[" follows a "!".                                           *)
(***************************************************************************)
RECURSIVE FoundInOrder(_, _, _)
FoundInOrder(s, ps, from) ==
    IF ps = <<>> THEN TRUE
    ELSE \E i \in from..Len(s) :
            /\ StartsWithAt(s, i, LinkSyntax(Head(ps)[1], Head(ps)[2]))
            /\ Unpreceded(s, i)
            /\ FoundInOrder(s, Tail(ps),
                            i + Len(LinkSyntax(Head(ps)[1], Head(ps)[2])))

C5_LinksSkipImages ==
    fn = "extract_markdown_links"
    => /\ FoundInOrder(text, pairs, 1)
       /\ Len(pairs) <= Cardinality({i \in 1..Len(text) :
                                        text[i] = "[" /\ Unpreceded(text, i)})

\* The text holds an image and a link of the same words; one pair is returned.
C5_Witness ==
    /\ fn = "extract_markdown_links"
    /\ Len(pairs) = 1
    /\ \E i \in 1..Len(text) :
          StartsWithAt(text, i, ImageSyntax(pairs[1][1], pairs[1][2]))

(***************************************************************************)
(* C6: split_nodes_link on one Plain node leaves every image of its text,  *)
(* the leading "!" included, whole inside one Plain node of the result.    *)
(***************************************************************************)
C6_ImageStaysPlain ==
    (fn = "split_nodes_link" /\ OnWholeText /\ raised = NoError)
    => \A m \in Range(finditer("image", text)) :
          \E k \in 1..Len(nodes) :
             /\ IsPlain(nodes[k])
             /\ OffsetOf(nodes, k) <= m.start
             /\ m.stop < OffsetOf(nodes, k) + Len(nodes[k].text)

(***************************************************************************)
(* C7: text_to_textnodes, when it returns, gives no Link cut from an       *)
(* image: every Link node stands in the text as a link at a "[" that       *)
(* follows no "!".                                                         *)
(***************************************************************************)
C7_NoImageAsLink ==
    (fn = "text_to_textnodes" /\ raised = NoError)
    => \A k \in 1..Len(nodes) :
          nodes[k].text_type = "LINK"
          => /\ StartsWithAt(text, OffsetOf(nodes, k),
                             LinkSyntax(nodes[k].text, nodes[k].url))
             /\ Unpreceded(text, OffsetOf(nodes, k))

\* An image and a link of the same words, one after the other.
C7_Witness ==
    /\ fn = "text_to_textnodes"
    /\ raised = NoError
    /\ \E k \in 1..(Len(nodes) - 1) :
          /\ nodes[k].text_type = "IMAGE"
          /\ nodes[k + 1].text_type = "LINK"
          /\ nodes[k + 1].text = nodes[k].text
          /\ nodes[k + 1].url = nodes[k].url

(***************************************************************************)
(* C8: split_nodes_image and split_nodes_link never raise: the literal of  *)
(* each match is found in the text that remains after the matches before.  *)
(***************************************************************************)
C8_SplittersNeverRaise ==
    fn \in {"split_nodes_image", "split_nodes_link"} => raised = NoError

\* The literal of the link found also stands inside an image before it, and
\* is cut there.
C8_Witness ==
    /\ fn = "split_nodes_link"
    /\ OnWholeText
    /\ \E j \in 2..Len(nodes) :
          /\ nodes[j].text_type = "LINK"
          /\ \E i \in 1..Len(text) :
                StartsWithAt(text, i, ImageSyntax(nodes[j].text, nodes[j].url))

(***************************************************************************)
(* C9: split_nodes_image and split_nodes_link return the list as it is     *)
(* when no Plain node has a match, empty Plain nodes included; a Plain     *)
(* node with a match gives no empty Plain node, so the result has as many  *)
(* empty Plain nodes as the list had.                                      *)
(***************************************************************************)
MatchesIn(s) ==
    IF fn = "split_nodes_image" THEN extract_markdown_images(s)
    ELSE extract_markdown_links(s)

EmptyPlain(ns) == {k \in 1..Len(ns) : IsPlain(ns[k]) /\ ns[k].text = <<>>}

C9_NoEmptyPlainAdded ==
    (fn \in {"split_nodes_image", "split_nodes_link"} /\ raised = NoError)
    => /\ (\A k \in 1..Len(old_nodes) :
              IsPlain(old_nodes[k]) => MatchesIn(old_nodes[k].text) = <<>>)
          => nodes = old_nodes
       /\ Cardinality(EmptyPlain(nodes)) = Cardinality(EmptyPlain(old_nodes))

\* Two matches side by side at the start of the text: two nodes, no Plain.
C9_Witness ==
    /\ fn = "split_nodes_link"
    /\ OnWholeText
    /\ raised = NoError
    /\ Len(nodes) = 2
    /\ nodes[1].text_type = "LINK"
    /\ nodes[2].text_type = "LINK"

(***************************************************************************)
(* C10: every block markdown_to_blocks returns is non-empty, begins and    *)
(* ends with no whitespace and holds no blank line; the blocks stand in    *)
(* the document in their order and hold all of it but whitespace; a        *)
(* document of whitespace only, or empty, gives no block.                  *)
(***************************************************************************)
NoWhitespace(s) == SelectSeq(s, LAMBDA c : c \notin Whitespace)

RECURSIVE StandInOrder(_, _, _)
StandInOrder(s, bs, from) ==
    IF bs = <<>> THEN TRUE
    ELSE \E i \in from..Len(s) :
            /\ StartsWithAt(s, i, Head(bs))
            /\ StandInOrder(s, Tail(bs), i + Len(Head(bs)))

WellFormedBlock(b) ==
    /\ b # <<>>
    /\ b[1] \notin Whitespace
    /\ b[Len(b)] \notin Whitespace
    /\ \A k \in 1..(Len(b) - 1) : ~(b[k] = "\n" /\ b[k + 1] = "\n")

C10_BlocksWellFormed ==
    fn = "markdown_to_blocks"
    => /\ \A k \in 1..Len(blocks) : WellFormedBlock(blocks[k])
       /\ StandInOrder(markdown, blocks, 1)
       /\ NoWhitespace(Concat(blocks)) = NoWhitespace(markdown)
       /\ NoWhitespace(markdown) = <<>> => blocks = <<>>

\* Blocks apart by more than one blank line, whitespace before the first.
C10_Witness ==
    /\ fn = "markdown_to_blocks"
    /\ Len(blocks) = 2
    /\ markdown[1] \in Whitespace
    /\ \E i \in 1..Len(markdown) : StartsWithAt(markdown, i, <<"\n", "\n", "\n">>)

(***************************************************************************)
(* Vocabulary of the block properties.                                     *)
(***************************************************************************)
\* The number of "#" the block begins with.
HashRun(s) == Cardinality({k \in 1..Len(s) : \A j \in 1..k : s[j] = "#"})

\* 1 to 6 "#" at the start, and a whitespace character right after them.
HeadingShape(s) ==
    /\ HashRun(s) \in 1..MaxLevel
    /\ HashRun(s) < Len(s)
    /\ s[HashRun(s) + 1] \in Whitespace

\* The lines of a block: the stretches between its newlines.
BlockLines(s) == split(s, <<"\n">>)

EveryLineStarts(s, p) ==
    \A k \in 1..Len(BlockLines(s)) : StartsWithAt(BlockLines(s)[k], 1, p)

\* Line i begins with the numeral of i, a dot and a space, for every i.
AllNumbered(s) ==
    \A i \in 1..Len(BlockLines(s)) :
        StartsWithAt(BlockLines(s)[i], 1, Decimal(i) \o <<".", " ">>)

\* Some line begins with a numeral of one digit, a dot and a space.
SomeLineNumbered(s) ==
    \E k \in 1..Len(BlockLines(s)) : \E d \in 1..Len(Digits) :
        StartsWithAt(BlockLines(s)[k], 1, <<Digits[d], ".", " ">>)

OpensFence(s) == StartsWithAt(s, 1, Fence)
ClosesFence(s) == Len(s) >= Len(Fence) /\ SubSeq(s, Len(s) - 2, Len(s)) = Fence

Classified == fn = "block_to_block_type"

(***************************************************************************)
(* C11: block_to_block_type gives one of the six block types for every     *)
(* block and raises nothing, PARAGRAPH for the empty block; so the match   *)
(* statement of markdown_to_html_node never reaches its "invalid block     *)
(* type" branch.                                                           *)
(***************************************************************************)
C11_ClassifierTotal ==
    Classified
    => /\ block_type \in BlockType
       /\ raised = NoError
       /\ block = <<>> => block_type = "PARAGRAPH"
       /\ ConvertBlock(block, block_type).raised # InvalidBlockType

\* The empty block, classified.
C11_Witness == Classified /\ block = <<>> /\ block_type = "PARAGRAPH"

(***************************************************************************)
(* C12: a block is HEADING exactly when it begins with 1 to 6 "#" and a    *)
(* whitespace character right after them, whatever follows; 7 or more "#", *)
(* or no whitespace after the "#", is never HEADING.                       *)
(***************************************************************************)
C12_HeadingRule ==
    Classified => (block_type = "HEADING" <=> HeadingShape(block))

\* Seven "#" and a space: not a heading.
C12_Witness ==
    /\ Classified
    /\ HashRun(block) = MaxLevel + 1
    /\ Len(block) > HashRun(block)
    /\ block[HashRun(block) + 1] = " "
    /\ block_type # "HEADING"

(***************************************************************************)
(* C13: a block that is neither HEADING nor CODE is ORDERED_LIST exactly   *)
(* when every line i begins with the numeral of i and ". "; when some line *)
(* is numbered but the numbering 1, 2, 3, ... is broken, the whole block   *)
(* is PARAGRAPH.                                                           *)
(***************************************************************************)
C13_OrderedAllOrNothing ==
    (Classified /\ block_type \notin {"HEADING", "CODE"})
    => /\ block_type = "ORDERED_LIST" <=> AllNumbered(block)
       /\ (SomeLineNumbered(block) /\ ~AllNumbered(block))
          => block_type = "PARAGRAPH"

\* A first line numbered 1 and a later line that breaks the numbering.
C13_Witness ==
    /\ Classified
    /\ StartsWithAt(block, 1, <<"1", ".", " ">>)
    /\ Len(BlockLines(block)) > 1
    /\ ~AllNumbered(block)
    /\ block_type = "PARAGRAPH"

(***************************************************************************)
(* C14 as stated: CODE only with both fences, and a block with one fence   *)
(* only is PARAGRAPH.                                                      *)
(***************************************************************************)
C14_OneFenceIsParagraph ==
    Classified
    => /\ block_type = "CODE" => (OpensFence(block) /\ ClosesFence(block))
       /\ (OpensFence(block) /\ ~ClosesFence(block))
          => block_type = "PARAGRAPH"
       /\ (ClosesFence(block) /\ ~OpensFence(block))
          => block_type = "PARAGRAPH"

(***************************************************************************)
(* C14, amended: a block is CODE exactly when it both starts and ends with *)
(* the fence; with the opening fence only it is PARAGRAPH; with the        *)
(* closing fence only it is never CODE, and is PARAGRAPH unless it passes  *)
(* the heading, quote or list test.                                        *)
(***************************************************************************)
C14_FenceRule ==
    Classified
    => /\ block_type = "CODE" <=> (OpensFence(block) /\ ClosesFence(block))
       /\ (OpensFence(block) /\ ~ClosesFence(block))
          => block_type = "PARAGRAPH"
       /\ (ClosesFence(block) /\ ~OpensFence(block))
          => /\ block_type # "CODE"
             /\ block_type = "PARAGRAPH"
                <=> ~(\/ HeadingShape(block)
                      \/ EveryLineStarts(block, <<">">>)
                      \/ EveryLineStarts(block, <<"-", " ">>)
                      \/ AllNumbered(block))

\* A block that only closes the fence and is a quote.
C14_Witness ==
    /\ Classified
    /\ ClosesFence(block)
    /\ ~OpensFence(block)
    /\ block_type = "QUOTE"

(***************************************************************************)
(* Vocabulary of the conversion properties.                                *)
(***************************************************************************)
Open(tag) == <<"<">> \o tag \o <<">">>
Close(tag) == <<"<", "/">> \o tag \o <<">">>

Div == <<"d", "i", "v">>
Pre == <<"p", "r", "e">>
Code == <<"c", "o", "d", "e">>

\* s without its first character when that is a newline.
DropOneNewline(s) == IF s # <<>> /\ Head(s) = "\n" THEN Tail(s) ELSE s

\* What stands between the first three and the last three characters.
Fenced(s) == Slice(s, Len(Fence) + 1, Len(s) - Len(Fence))

\* A document of one fenced code block: the fence, a text that holds no
\* fence, the fence.
OneFencedBlock(s) ==
    /\ Len(s) >= 2 * Len(Fence)
    /\ OpensFence(s)
    /\ ClosesFence(s)
    /\ Occurrences(Fenced(s), Fence) = {}

\* How often the character c stands in s.
Times(s, c) == Cardinality({k \in 1..Len(s) : s[k] = c})

(***************************************************************************)
(* C15: a document of one fenced code block converts, and renders as       *)
(* <div><pre><code>, the text between the fences after its first line      *)
(* break as it stands, </code></pre></div>; nothing in it is read as       *)
(* inline markup nor makes the conversion raise.                           *)
(***************************************************************************)
C15_CodeVerbatim ==
    (fn = "markdown_to_html_node" /\ OneFencedBlock(markdown))
    => /\ raised = NoError
       /\ html # None
          => html = Open(Div) \o Open(Pre) \o Open(Code)
                        \o DropOneNewline(Fenced(markdown))
                        \o Close(Code) \o Close(Pre) \o Close(Div)

(***************************************************************************)
(* C16: block_to_code, of blocks.py and of main.py, on a block classified  *)
(* CODE keeps as code text what stands between the two fences less at most *)
(* one leading newline: a second leading newline is kept.                  *)
(***************************************************************************)
C16_OneNewlineStripped ==
    /\ (fn = "block_to_code" /\ raised = NoError)
       => tree.children.items[1].children.items[1].value
              = DropOneNewline(Fenced(block))
    /\ (fn = "main.block_to_code" /\ raised = NoError)
       => tree.children.items[1].value = DropOneNewline(Fenced(block))

(***************************************************************************)
(* C17: a document of one paragraph block of several lines renders, by     *)
(* markdown_to_html_node of blocks.py and of main.py alike, with no        *)
(* newline inside <p>, each line break of the block having become one      *)
(* space.                                                                  *)
(***************************************************************************)
OneParagraph ==
    /\ Len(blocks) = 1
    /\ block_to_block_type(blocks[1]) = "PARAGRAPH"
    /\ Times(blocks[1], "\n") > 0

C17_LinesJoined ==
    (/\ fn \in {"markdown_to_html_node", "main.markdown_to_html_node"}
     /\ raised = NoError
     /\ html # None
     /\ OneParagraph)
    => /\ Times(html, "\n") = 0
       /\ Times(html, " ") = Times(blocks[1], " ") + Times(blocks[1], "\n")

\* The part of C17 that is about blocks.py alone.
C17_LinesJoinedByBlocks == fn = "markdown_to_html_node" => C17_LinesJoined

\* A heading block after its "#" and after the whitespace that follows them.
HeadingText(s) ==
    Slice(s,
          HashRun(s) + 1
              + Cardinality({k \in HashRun(s) + 1..Len(s) :
                                \A j \in HashRun(s) + 1..k : s[j] \in Whitespace}),
          Len(s))

(***************************************************************************)
(* C18: block_to_heading on a block classified HEADING returns a Parent    *)
(* whose tag is "h" and the number of "#" that begin the block, 1 to 6,    *)
(* and whose children are the inline parse of the block without those "#"  *)
(* and without the whitespace right after them; it raises only what that   *)
(* inline parse raises.                                                    *)
(***************************************************************************)
C18_HeadingLevelAndText ==
    fn = "block_to_heading"
    => IF text_to_textnodes(HeadingText(block)).raised # NoError
       THEN raised = text_to_textnodes(HeadingText(block)).raised
       ELSE /\ raised = NoError
            /\ HashRun(block) \in 1..MaxLevel
            /\ tree = ParentNode(
                          <<"h">> \o Decimal(HashRun(block)),
                          Some(MapToHtmlNodes(
                                   text_to_textnodes(HeadingText(block)).value)),
                          Absent)

\* A heading of level 2 with two whitespace characters before its text.
C18_Witness ==
    /\ fn = "block_to_heading"
    /\ raised = NoError
    /\ HashRun(block) = 2
    /\ Len(block) > 4
    /\ block[4] \in Whitespace
    /\ HeadingText(block) # <<>>
    /\ tree.tag = <<"h", "2">>

\* The text of item i of a list block: line i without its prefix.
ItemText(s, i, prefix) ==
    Slice(BlockLines(s)[i], Len(prefix) + 1, Len(BlockLines(s)[i]))

ItemPrefix(name, i) ==
    IF name = "block_to_ul" THEN <<"-", " ">> ELSE Decimal(i) \o <<".", " ">>

ListItem(s, i, prefix) ==
    ParentNode(<<"l", "i">>,
               Some(MapToHtmlNodes(text_to_textnodes(ItemText(s, i, prefix)).value)),
               Absent)

(***************************************************************************)
(* C19: block_to_ul (block_to_ol) on a block classified UNORDERED_LIST     *)
(* (ORDERED_LIST) of n lines returns a "ul" ("ol") Parent of exactly n     *)
(* "li" children, the i-th holding the inline parse of line i without its  *)
(* "- " (numeral of i, ". ") prefix, items of empty text included; it      *)
(* raises only what the inline parse of one of the items raises.           *)
(***************************************************************************)
C19_OneItemPerLine ==
    fn \in {"block_to_ul", "block_to_ol"}
    => IF raised # NoError
       THEN \E i \in 1..Len(BlockLines(block)) :
                text_to_textnodes(ItemText(block, i, ItemPrefix(fn, i))).raised
                    = raised
       ELSE /\ tree.class = "ParentNode"
            /\ tree.tag = (IF fn = "block_to_ul" THEN <<"u", "l">>
                                                 ELSE <<"o", "l">>)
            /\ ~tree.children.is_none
            /\ Len(tree.children.items) = Len(BlockLines(block))
            /\ \A i \in 1..Len(BlockLines(block)) :
                   tree.children.items[i]
                       = ListItem(block, i, ItemPrefix(fn, i))

\* A list of several lines, one item empty and one not.
C19_Witness ==
    /\ fn = "block_to_ul"
    /\ raised = NoError
    /\ \E i, j \in 1..Len(BlockLines(block)) :
           /\ ItemText(block, i, <<"-", " ">>) = <<>>
           /\ ItemText(block, j, <<"-", " ">>) # <<>>
    /\ Len(tree.children.items) >= 2

(***************************************************************************)
(* Vocabulary of the rendering properties.                                 *)
(***************************************************************************)
\* Somewhere in the tree a Leaf has no value, or a Parent no tag or no
\* child list.
RECURSIVE HasDefect(_)
HasDefect(n) ==
    IF n.class = "LeafNode" THEN n.value = None
    ELSE \/ n.tag = None
         \/ n.children.is_none
         \/ \E k \in 1..Len(n.children.items) : HasDefect(n.children.items[k])

\* The rendering of a tree without defect.
RECURSIVE Rendering(_)
Rendering(n) ==
    IF n.class = "LeafNode" /\ n.tag = None THEN n.value
    ELSE <<"<">> \o n.tag \o props_to_html(n) \o <<">">>
         \o (IF n.class = "LeafNode" THEN n.value
             ELSE Concat([k \in 1..Len(n.children.items) |->
                              Rendering(n.children.items[k])]))
         \o Close(n.tag)

\* to_html was called on a tree built by hand.
WasRendered ==
    fn \in {"LeafNode", "ParentNode"} /\ (html # None \/ raised # NoError)

(***************************************************************************)
(* C20: to_html raises, one of the three ValueErrors, exactly when         *)
(* somewhere in the tree a Leaf has value None or a Parent has tag None or *)
(* children None; a Parent with an empty child list renders as <tag></tag>;*)
(* otherwise a Parent renders as <tag attrs>, its children's renderings in *)
(* order, </tag>, and a Leaf without tag as its raw value.                 *)
(***************************************************************************)
C20_RaisesExactlyOnDefect ==
    WasRendered
    => /\ raised # NoError <=> HasDefect(tree)
       /\ raised # NoError => raised \in {NoValue, NoTag, NoChildren}
       /\ raised = NoError => html = Rendering(tree)
       /\ (/\ raised = NoError
           /\ tree.class = "ParentNode"
           /\ tree.children.items = <<>>
           /\ tree.props.is_none)
          => html = Open(tree.tag) \o Close(tree.tag)

\* The root and its children are sound parents and a grandchild is a leaf
\* without value: the error comes from two levels down.
C20_Witness ==
    /\ WasRendered
    /\ raised = NoValue
    /\ tree.class = "ParentNode"
    /\ tree.children.items # <<>>
    /\ \A k \in 1..Len(tree.children.items) :
           tree.children.items[k].class = "ParentNode"

\* One attribute as the claim writes it: a space, the key, ="value".
Spelled(kv) == <<" ">> \o kv[1] \o <<"=", "\"">> \o kv[2] \o <<"\"">>

(***************************************************************************)
(* C21: props_to_html returns the attributes of the node in insertion      *)
(* order, each as a space, the key and ="value", and nothing else: the     *)
(* empty string when the mapping is None and also when it has no key.      *)
(***************************************************************************)
C21_AttributesAndNothingElse ==
    fn = "props_to_html"
    => html = (IF tree.props.is_none THEN <<>>
               ELSE Concat([k \in 1..Len(tree.props.items) |->
                                Spelled(tree.props.items[k])]))

\* The part of C21 about mappings that hold a key.
C21_WithKeys ==
    (fn = "props_to_html" /\ tree.props.items # <<>>)
    => C21_AttributesAndNothingElse

\* The table of the claim: kind, tag.
TagOfKind(k) ==
    CASE k = "TEXT" -> None
      [] k = "BOLD" -> <<"b">>
      [] k = "ITALIC" -> <<"i">>
      [] k = "CODE" -> <<"c", "o", "d", "e">>
      [] k = "LINK" -> <<"a">>
      [] k = "IMAGE" -> <<"i", "m", "g">>

\* url, or the empty string when it is None.
UrlOrEmpty(tn) == IF tn.url = None THEN <<>> ELSE tn.url

PropsOfKind(tn) ==
    CASE tn.text_type = "LINK" ->
             Some(<< <<<<"h", "r", "e", "f">>, UrlOrEmpty(tn)>> >>)
      [] tn.text_type = "IMAGE" ->
             Some(<< <<<<"s", "r", "c">>, UrlOrEmpty(tn)>>,
                     <<<<"a", "l", "t">>, tn.text>> >>)
      [] OTHER -> Absent

(***************************************************************************)
(* C22: text_node_to_html_node returns the Leaf of the table: no tag for   *)
(* TEXT, b, i, code, a with props href, img with value "" and props src    *)
(* then alt, the url given as "" when it is None; the value is the text    *)
(* (never None) but for IMAGE; a kind outside the six raises "Unknown text *)
(* type."                                                                  *)
(***************************************************************************)
C22_FixedTable ==
    fn = "text_node_to_html_node"
    => IF nodes[1].text_type \notin
              {"TEXT", "BOLD", "ITALIC", "CODE", "LINK", "IMAGE"}
       THEN raised = <<"Unknown text type.">>
       ELSE /\ raised = NoError
            /\ tree.class = "LeafNode"
            /\ tree.tag = TagOfKind(nodes[1].text_type)
            /\ tree.value = (IF nodes[1].text_type = "IMAGE" THEN <<>>
                             ELSE nodes[1].text)
            /\ tree.value # None
            /\ tree.children = Absent
            /\ tree.props = PropsOfKind(nodes[1])

\* A Link without url: href is the empty string.
C22_Witness ==
    /\ fn = "text_node_to_html_node"
    /\ raised = NoError
    /\ nodes[1].text_type = "LINK"
    /\ nodes[1].url = None
    /\ tree.props.items[1][2] = <<>>

\* The tags a block of each type is converted to.
TagsOfType(bt) ==
    CASE bt = "HEADING" -> {<<"h">> \o Decimal(n) : n \in 1..MaxLevel}
      [] bt = "CODE" -> {Pre}
      [] bt = "QUOTE" -> {<<"b", "l", "o", "c", "k", "q", "u", "o", "t", "e">>}
      [] bt = "UNORDERED_LIST" -> {<<"u", "l">>}
      [] bt = "ORDERED_LIST" -> {<<"o", "l">>}
      [] bt = "PARAGRAPH" -> {<<"p">>}

(***************************************************************************)
(* C23: when markdown_to_html_node returns, the tree is a "div" Parent     *)
(* with one child per block of the document, in block order, no Parent of  *)
(* it lacks its tag or its child list and no Leaf its value, so that       *)
(* to_html on it never raises; the empty document renders as <div></div>.  *)
(* The only exceptions are those of the conversion.                        *)
(***************************************************************************)
C23_ConvertedTreeRenders ==
    fn = "markdown_to_html_node"
    => /\ raised \notin {NoValue, NoTag, NoChildren}
       /\ raised = NoError
          => /\ tree.class = "ParentNode"
             /\ tree.tag = Div
             /\ ~HasDefect(tree)
             /\ Len(tree.children.items) = Len(blocks)
             /\ \A k \in 1..Len(blocks) :
                    tree.children.items[k].tag
                        \in TagsOfType(block_to_block_type(blocks[k]))
             /\ html # None => html = Rendering(tree)
             /\ (html # None /\ blocks = <<>>)
                => html = Open(Div) \o Close(Div)

\* A document of two blocks, converted and rendered.
C23_Witness ==
    /\ fn = "markdown_to_html_node"
    /\ raised = NoError
    /\ html # None
    /\ Len(blocks) = 2
    /\ Len(tree.children.items) = 2

(***************************************************************************)
(* C24: markdown_to_html_node and the block converters write nothing to    *)
(* standard output.                                                        *)
(***************************************************************************)
C24_NothingWritten == stdout = <<>>

\* The part of C24 about every converter but that of code blocks.
C24_NothingWrittenBut ==
    (fn \notin {"block_to_code", "markdown_to_html_node"}) => stdout = <<>>

\* The lines of the document that begin with "# ".
TitleLines ==
    {k \in 1..Len(BlockLines(markdown)) :
         StartsWithAt(BlockLines(markdown)[k], 1, <<"#", " ">>)}

\* Line k without its "# ", and without whitespace at either end.
Trimmed(k) ==
    strip(Slice(BlockLines(markdown)[k], 3, Len(BlockLines(markdown)[k])))

(***************************************************************************)
(* C25: extract_title returns the text after "# " of the first line of the *)
(* document that begins with "# ", trimmed, whatever block the line is in  *)
(* and whatever title lines follow; it raises "markdown does not contain   *)
(* h1 title" when no line begins so.                                       *)
(***************************************************************************)
C25_FirstTitleLine ==
    fn = "extract_title"
    => IF TitleLines = {}
       THEN raised = <<"markdown does not contain h1 title">>
       ELSE /\ raised = NoError
            /\ \E k \in TitleLines :
                   /\ \A j \in TitleLines : k <= j
                   /\ title = Trimmed(k)

\* Two title lines of different text in one block: the first is returned.
C25_Witness ==
    /\ fn = "extract_title"
    /\ raised = NoError
    /\ \E j, k \in TitleLines :
           j < k /\ Trimmed(j) # Trimmed(k) /\ title = Trimmed(j)

\* The block types whose test, as block_to_block_type makes it, the block
\* passes: each test on its own, whatever the tests before it said.
TestsPassed(s) ==
    {bt \in {"HEADING"} : HeadingMatch(s).matched}
    \cup {bt \in {"CODE"} : startswith(s, Fence) /\ endswith(s, Fence)}
    \cup {bt \in {"QUOTE"} : AllStartWith(split(s, <<"\n">>), <<">">>)}
    \cup {bt \in {"UNORDERED_LIST"} :
              AllStartWith(split(s, <<"\n">>), <<"-", " ">>)}
    \cup {bt \in {"ORDERED_LIST"} : Numbered(split(s, <<"\n">>))}

(***************************************************************************)
(* C27: no block passes more than one of the five tests of                 *)
(* block_to_block_type (heading pattern, both fences, every line ">",      *)
(* every line "- ", lines numbered from 1), so the type returned is that   *)
(* of the one test passed, PARAGRAPH when none is, in whatever order the   *)
(* tests are made.                                                         *)
(***************************************************************************)
C27_TestsExclusive ==
    Classified
    => /\ Cardinality(TestsPassed(block)) <= 1
       /\ \A bt \in TestsPassed(block) : block_type = bt
       /\ TestsPassed(block) = {} => block_type = "PARAGRAPH"

\* A list block that ends with the fence: it passes the test of its lines
\* and half of the test of code blocks.
C27_Witness ==
    /\ Classified
    /\ block_type = "UNORDERED_LIST"
    /\ ClosesFence(block)
    /\ TestsPassed(block) = {"UNORDERED_LIST"}

\* A node written back as it stood in the text: an Image as ![text](url),
\* a Link as [text](url), any other node as its text.
WrittenBack(n) ==
    CASE n.text_type = "IMAGE" -> ImageSyntax(n.text, n.url)
      [] n.text_type = "LINK" -> LinkSyntax(n.text, n.url)
      [] OTHER -> n.text

AllWrittenBack(ns) == Concat([k \in 1..Len(ns) |-> WrittenBack(ns[k])])

(***************************************************************************)
(* C28: split_nodes_image and split_nodes_link lose no character: the      *)
(* nodes returned, written back in order, give the text of the node that   *)
(* was split (for a list, the written-back list it was given), also when   *)
(* the same ![alt](url) or [text](url) stands in the text more than once.  *)
(***************************************************************************)
C28_SplitLosesNothing ==
    (fn \in {"split_nodes_image", "split_nodes_link"} /\ raised = NoError)
    => /\ AllWrittenBack(nodes) = AllWrittenBack(old_nodes)
       /\ OnWholeText => AllWrittenBack(nodes) = text

\* The same link twice in the text, cut into two Link nodes.
C28_Witness ==
    /\ fn = "split_nodes_link"
    /\ OnWholeText
    /\ raised = NoError
    /\ \E j, k \in 1..Len(nodes) :
           /\ j < k
           /\ nodes[j].text_type = "LINK"
           /\ nodes[j] = nodes[k]

\* A character the delimiter stages of text_to_textnodes split on.
HasDelimiterChar(s) == \E i \in 1..Len(s) : s[i] \in {"_", "*", Backtick}

\* text_to_textnodes was called on "[" + t + "](" + u + ")".
CalledOnLink(t, u) ==
    /\ fn = "text_to_textnodes"
    /\ text = LinkSyntax(t, u)

C29_LinkWithoutDelimiters ==
    \A t \in LinkTextParts, u \in LinkUrls :
        /\ (CalledOnLink(t, u) /\ ~HasDelimiterChar(t \o u))
           => /\ raised = NoError
              /\ nodes = <<TextNode(t, "LINK", u)>>
        /\ (fn = "extract_markdown_links" /\ text = LinkSyntax(t, u))
           => pairs = << <<t, u>> >>

\* u begins with http:// or https://.
BeginsWithPrefix(u) == \E p \in UrlPrefixes : StartsWithAt(u, 1, p)

\* The target invariant of one node.
TargetRespected(n) ==
    IF n.text_type \in {"LINK", "IMAGE"}
    THEN n.url # None /\ BeginsWithPrefix(n.url)
    ELSE n.url = None

\* A bracket construct whose URL begins with neither prefix.
OtherUrlConstruct == LinkSyntax(<<"a">>, <<"b">>)

\* The characters from position i to position j of the text stand inside one
\* Plain node.
InsidePlain(i, j) ==
    \E k \in 1..Len(nodes) :
        /\ IsPlain(nodes[k])
        /\ OffsetOf(nodes, k) <= i
        /\ j < OffsetOf(nodes, k) + Len(nodes[k].text)

(***************************************************************************)
(* C30: every node text_to_textnodes returns respects the target           *)
(* invariant (url None for TEXT, BOLD, ITALIC and CODE, a url beginning    *)
(* with http:// or https:// for LINK and IMAGE), and a bracket construct   *)
(* whose URL begins with neither prefix raises no error and is left inside *)
(* a Plain node (stated for the texts without a delimiter character, which *)
(* the delimiter stages leave as they are).                                *)
(***************************************************************************)
C30_TargetInvariant ==
    fn = "text_to_textnodes"
    => /\ raised = NoError
          => \A k \in 1..Len(nodes) : TargetRespected(nodes[k])
       /\ ~HasDelimiterChar(text)
          => /\ raised = NoError
             /\ \A i \in 1..Len(text) :
                   StartsWithAt(text, i, OtherUrlConstruct)
                   => InsidePlain(i, i + Len(OtherUrlConstruct) - 1)

\* What the code does keep: the target invariant of every node, no error
\* from a text without a delimiter character, and the construct left inside
\* a Plain node when no link or image was found in the text.
C30_TargetsWellFormed ==
    fn = "text_to_textnodes"
    => /\ raised = NoError
          => \A k \in 1..Len(nodes) : TargetRespected(nodes[k])
       /\ ~HasDelimiterChar(text)
          => /\ raised = NoError
             /\ (\A k \in 1..Len(nodes) : IsPlain(nodes[k]))
                => \A i \in 1..Len(text) :
                      StartsWithAt(text, i, OtherUrlConstruct)
                      => InsidePlain(i, i + Len(OtherUrlConstruct) - 1)

====
